---- MODULE Spec2Model ----
(***************************************************************************)
(* The Join Server of lorawan-stack (package joinserver): HandleJoin,      *)
(* GetAppSKey and GetNwkSKeys over one end device of the device registry.  *)
(* Byte strings are sequences of 0..255, optional values (Go pointers that *)
(* may be nil) are sequences of length 0 or 1.                             *)
(***************************************************************************)
EXTENDS Integers, Sequences, FiniteSets, TLC

\* ------------------------------------------------------------------ bounds

\* Accepted joins recorded per behaviour (HandleJoin is disabled after them).
MaxJoins == 2

\* ------------------------------------------------------- program constants

MAC_UNKNOWN == 0
MAC_V1_0 == 1
MAC_V1_0_1 == 2
MAC_V1_0_2 == 3
MAC_V1_1 == 4
MAC_V1_0_3 == 5

MType_JOIN_REQUEST == 0
MType_JOIN_ACCEPT == 1
MType_UNCONFIRMED_UP == 2

Major_LORAWAN_R1 == 0

RawJoinRequestLen == 23
JoinAcceptLen == 17
JoinAcceptCFListLen == 33
MICOffset == 19

supportedMACVersions == <<MAC_V1_0, MAC_V1_0_1, MAC_V1_0_2, MAC_V1_1>>

\* ------------------------------------------------------------ Go values

Nil == <<>>
Some(x) == <<x>>
IsNil(o) == Len(o) = 0
Deref(o) == o[1]

\* uint16 arithmetic wraps.
Uint16(n) == n % 65536

\* A uint32 is its two 16-bit halves <<high, low>>.
Uint32FromUint16(n) == <<0, n>>
Uint16FromUint32(a) == a[2]
Uint32Less(a, b) == a[1] < b[1] \/ (a[1] = b[1] /\ a[2] < b[2])
Uint32Inc(a) == IF a[2] < 65535 THEN <<a[1], a[2] + 1>> ELSE <<(a[1] + 1) % 65536, 0>>

\* math.MaxUint32
MaxUint32 == <<65535, 65535>>

RECURSIVE IsZeroBytes(_)
IsZeroBytes(b) == IF Len(b) = 0 THEN TRUE
                  ELSE Head(b) = 0 /\ IsZeroBytes(Tail(b))

RECURSIVE ReverseBytes(_)
ReverseBytes(b) == IF Len(b) = 0 THEN <<>>
                   ELSE Append(ReverseBytes(Tail(b)), Head(b))

RECURSIVE SumBytes(_)
SumBytes(b) == IF Len(b) = 0 THEN 0 ELSE Head(b) + SumBytes(Tail(b))

\* binary.LittleEndian.Uint16
LittleEndianUint16(b) == b[1] + 256 * b[2]

\* binary.LittleEndian.PutUint32 into 4 bytes
LittleEndianPutUint32(a) ==
    << a[2] % 256, a[2] \div 256, a[1] % 256, a[1] \div 256 >>

\* var jn types.JoinNonce; copy(jn[:], nb): the first 3 of the 4 bytes
JoinNonceOf(nextJoinNonce) == SubSeq(LittleEndianPutUint32(nextJoinNonce), 1, 3)

\* ------------------------------------------------------ crypto primitives
\* The crypto package is a dependency: each primitive is a deterministic
\* function of exactly the arguments the code passes, and the ones the code
\* checks for an error may fail.

\* crypto.ComputeJoinRequestMIC(key, rawPayload[:19]) -> [4]byte
ComputeJoinRequestMIC(key, b) ==
    LET s == key + SumBytes(b) + 7 * Len(b)
    IN  << s % 256, (s \div 256) % 256, (key * 3) % 256, (s + key) % 251 >>

\* crypto.DeriveJSIntKey(nwkKey, devEUI)
DeriveJSIntKey(nwkKey, devEUI) == (nwkKey * 5 + SumBytes(devEUI)) % 256

\* crypto.ComputeJoinAcceptMIC(jsIntKey, joinReqType, joinEUI, devNonce, b)
ComputeJoinAcceptMIC(jsIntKey, joinReqType, joinEUI, devNonce, b) ==
    LET s == jsIntKey + joinReqType + SumBytes(joinEUI) + SumBytes(devNonce) + SumBytes(b)
    IN  << s % 256, (s \div 256) % 256, jsIntKey % 256, (s + 1) % 251 >>

\* crypto.ComputeLegacyJoinAcceptMIC(appKey, b)
ComputeLegacyJoinAcceptMIC(appKey, b) ==
    LET s == appKey + SumBytes(b)
    IN  << s % 256, (s \div 256) % 256, appKey % 256, (s + 2) % 251 >>

\* crypto.EncryptJoinAccept(key, payload): AES-ECB over whole 16-byte blocks,
\* as long as its input; Nil when the input is not a positive number of blocks.
EncryptJoinAccept(key, payload) ==
    IF Len(payload) = 0 \/ Len(payload) % 16 # 0 THEN Nil
    ELSE Some([i \in 1..Len(payload) |-> (payload[i] + key + i) % 256])

\* crypto.Derive*Key: named by the primitive and its arguments.
DeriveFNwkSIntKey(nwkKey, jn, joinEUI, devNonce) == <<"FNwkSIntKey", nwkKey, jn, joinEUI, devNonce>>
DeriveSNwkSIntKey(nwkKey, jn, joinEUI, devNonce) == <<"SNwkSIntKey", nwkKey, jn, joinEUI, devNonce>>
DeriveNwkSEncKey(nwkKey, jn, joinEUI, devNonce) == <<"NwkSEncKey", nwkKey, jn, joinEUI, devNonce>>
DeriveAppSKey(appKey, jn, joinEUI, devNonce) == <<"AppSKey", appKey, jn, joinEUI, devNonce>>
DeriveLegacyNwkSKey(appKey, jn, netID, devNonce) == <<"LegacyNwkSKey", appKey, jn, netID, devNonce>>
DeriveLegacyAppSKey(appKey, jn, netID, devNonce) == <<"LegacyAppSKey", appKey, jn, netID, devNonce>>

\* Which primitive fails in a call ("none": none does).
CryptoFaults == {"none", "ComputeJoinRequestMIC", "ComputeJoinAcceptMIC", "EncryptJoinAccept"}

\* ------------------------------------------------------------------ codec

\* MHDR.AppendLoRaWAN: MType in bits 7..5, Major in bits 1..0.
MHDRByte(mhdr) == mhdr.MType * 32 + mhdr.Major

\* The zero ttnpb.Message (no structured payload given).
EmptyMessage == [MType |-> 0, Major |-> 0, MIC |-> <<>>, Payload |-> Nil]

\* Message.MarshalLoRaWAN of a Join-Request:
\* MHDR(1) || JoinEUI(8, LE) || DevEUI(8, LE) || DevNonce(2, LE) || MIC(4)
MarshalLoRaWAN(msg) ==
    LET pld == Deref(msg.Payload)
    IN  <<MHDRByte(msg)>> \o ReverseBytes(pld.JoinEUI) \o ReverseBytes(pld.DevEUI)
          \o ReverseBytes(pld.DevNonce) \o msg.MIC

\* Message.UnmarshalLoRaWAN: Nil on a malformed payload.
UnmarshalLoRaWAN(raw) ==
    IF Len(raw) = 0 THEN Nil
    ELSE LET mtype == raw[1] \div 32
             major == raw[1] % 4
         IN  IF mtype = MType_JOIN_REQUEST
             THEN IF Len(raw) # RawJoinRequestLen THEN Nil
                  ELSE Some([MType |-> mtype, Major |-> major,
                             MIC |-> SubSeq(raw, MICOffset + 1, RawJoinRequestLen),
                             Payload |-> Some([Kind |-> "JoinRequestPayload",
                                               JoinEUI |-> ReverseBytes(SubSeq(raw, 2, 9)),
                                               DevEUI |-> ReverseBytes(SubSeq(raw, 10, 17)),
                                               DevNonce |-> ReverseBytes(SubSeq(raw, 18, 19))])])
             ELSE Some([MType |-> mtype, Major |-> major, MIC |-> <<>>,
                        Payload |-> Some([Kind |-> "MACPayload",
                                          JoinEUI |-> <<>>, DevEUI |-> <<>>, DevNonce |-> <<>>])])

\* JoinAcceptPayload.AppendLoRaWAN:
\* JoinNonce(3) || NetID(3) || DevAddr(4) || DLSettings(1) || RxDelay(1) || [CFList(16)]
AppendJoinAcceptPayload(b, netID, jn, cfList, devAddr, dlSettings, rxDelay) ==
    b \o jn \o ReverseBytes(netID) \o ReverseBytes(devAddr) \o <<dlSettings, rxDelay>>
      \o (IF IsNil(cfList) THEN <<>> ELSE Deref(cfList))

\* --------------------------------------------------------- prefix matcher

\* types.EUI64Prefix.Matches: the top Length bits of eui equal those of Value.
Matches(p, eui) ==
    LET full == p.Length \div 8
        rem == p.Length % 8
    IN  /\ \A i \in 1..full : eui[i] = p.Value[i]
        /\ \/ rem = 0
           \/ eui[full + 1] \div (2 ^ (8 - rem)) = p.Value[full + 1] \div (2 ^ (8 - rem))

\* JoinServer.euiPrefixes, fixed at construction (New).
euiPrefixes == << [Value |-> <<66, 240, 0, 0, 0, 0, 0, 0>>, Length |-> 12] >>

\* ------------------------------------------------------- device registry

\* deviceregistry.FindByIdentifiers: a copy of the record whose identifiers
\* equal the given ones (joinEUI Nil: by DevEUI alone), else ErrDeviceNotFound.
FindByIdentifiers(reg, devEUI, joinEUI) ==
    IF reg.DevEUI = devEUI /\ (IsNil(joinEUI) \/ reg.JoinEUI = Deref(joinEUI))
    THEN Some(reg) ELSE Nil

\* Device.Store: "ok" writes the record, the other outcomes are its errors.
StoreOutcomes == {"ok", "ConflictError", "BackendError"}

StoreDevice(reg, dev, outcome) == IF outcome = "ok" THEN dev ELSE reg

\* MACVersion.Compare: -1, 0, 1 by (major, minor, patch).
MACVersionRank(v) ==
    CASE v = MAC_V1_0 -> 100
      [] v = MAC_V1_0_1 -> 101
      [] v = MAC_V1_0_2 -> 102
      [] v = MAC_V1_0_3 -> 103
      [] v = MAC_V1_1 -> 110
      [] OTHER -> 0

Compare(v, o) ==
    IF MACVersionRank(v) < MACVersionRank(o) THEN -1
    ELSE IF MACVersionRank(v) > MACVersionRank(o) THEN 1 ELSE 0

\* ------------------------------------------------------------ HandleJoin

NoError == "nil"

\* The outcome of a call that ends in a panic of the handler.
Panic == "panic"

\* Mutant of Failure: the error paths store the in-memory device too.
Failure_StoresDevice(err, cause, dev) ==
    [Err |-> err, Cause |-> cause, Resp |-> Nil, Dev |-> dev, Stores |-> TRUE]

\* Mutant of Failure: a join refused after the DevNonce check stores the
\* device it has in hand.
Failure_StoresCheckedNonce(err, cause, dev) ==
    [Err |-> err, Cause |-> cause, Resp |-> Nil, Dev |-> dev,
     Stores |-> err \in {"MICCheckFailed", "CorruptRegistry"}]

\* A handler result: the error (NoError: none) with its cause, the response,
\* the handler's in-memory device and whether Device.Store is reached.
Failure(err, cause, dev) ==
    [Err |-> err, Cause |-> cause, Resp |-> Nil, Dev |-> dev, Stores |-> FALSE]

\* Mutant of checkMIC: the last byte of the MIC is not compared.
checkMIC_ComparesThreeBytes(key, rawPayload, fault) ==
    IF Len(rawPayload) # RawJoinRequestLen THEN "RawPayloadLength"
    ELSE IF fault = "ComputeJoinRequestMIC" THEN "MICComputeFailed"
    ELSE LET computed == ComputeJoinRequestMIC(key, SubSeq(rawPayload, 1, MICOffset))
         IN  IF \E i \in 0..2 : computed[i + 1] # rawPayload[MICOffset + i + 1]
             THEN "MICMismatch" ELSE NoError

\* checkMIC: "nil", or the error it returns.
checkMIC(key, rawPayload, fault) ==
    IF Len(rawPayload) # RawJoinRequestLen THEN "RawPayloadLength"
    ELSE IF fault = "ComputeJoinRequestMIC" THEN "MICComputeFailed"
    ELSE LET computed == ComputeJoinRequestMIC(key, SubSeq(rawPayload, 1, MICOffset))
         IN  IF \E i \in 0..3 : computed[i + 1] # rawPayload[MICOffset + i + 1]
             THEN "MICMismatch" ELSE NoError

\* Mutant of VersionSupported: every version the protocol names passes.
VersionSupported_EveryNamedVersion(ver) == ver # MAC_UNKNOWN

\* The version gate of HandleJoin.
VersionSupported(ver) ==
    \E i \in 1..Len(supportedMACVersions) : supportedMACVersions[i] = ver

\* Mutant of GetPayload: the raw payload is parsed whenever there is one.
GetPayload_ParsesRawFirst(req) ==
    IF IsNil(req.RawPayload)
    THEN IF IsNil(req.Payload.Payload) THEN Nil ELSE Some(req.Payload)
    ELSE UnmarshalLoRaWAN(Deref(req.RawPayload))

\* req.GetPayload() after the optional UnmarshalLoRaWAN of the raw payload;
\* Nil when there is nothing to parse or parsing fails.
GetPayload(req) ==
    IF IsNil(req.Payload.Payload)
    THEN IF IsNil(req.RawPayload) THEN Nil ELSE UnmarshalLoRaWAN(Deref(req.RawPayload))
    ELSE Some(req.Payload)

\* Mutant of ValidateJoinRequest: the DevAddr is tested before the version
\* and the MType before the Major.
ValidateJoinRequest_Reordered(req) ==
    IF IsNil(req.DevAddr) THEN "MissingDevAddr"
    ELSE IF ~VersionSupported(req.SelectedMacVersion) THEN "UnsupportedLoRaWANMACVersion"
    ELSE IF IsNil(req.Payload.Payload) /\ IsNil(req.RawPayload) THEN "MissingPayload"
    ELSE IF IsNil(GetPayload(req)) THEN "UnmarshalPayloadFailed"
    ELSE LET msg == Deref(GetPayload(req))
             pld == Deref(msg.Payload)
         IN  IF msg.MType # MType_JOIN_REQUEST THEN "WrongPayloadType"
             ELSE IF msg.Major # Major_LORAWAN_R1 THEN "UnsupportedLoRaWANVersion"
             ELSE IF pld.Kind # "JoinRequestPayload" THEN "MissingJoinRequest"
             ELSE IF IsZeroBytes(pld.DevEUI) THEN "MissingDevEUI"
             ELSE IF IsZeroBytes(pld.JoinEUI) THEN "MissingJoinEUI"
             ELSE NoError

\* The checks of HandleJoin before the registry is consulted.
ValidateJoinRequest(req) ==
    IF ~VersionSupported(req.SelectedMacVersion) THEN "UnsupportedLoRaWANMACVersion"
    ELSE IF IsNil(req.DevAddr) THEN "MissingDevAddr"
    ELSE IF IsNil(req.Payload.Payload) /\ IsNil(req.RawPayload) THEN "MissingPayload"
    ELSE IF IsNil(GetPayload(req)) THEN "UnmarshalPayloadFailed"
    ELSE LET msg == Deref(GetPayload(req))
             pld == Deref(msg.Payload)
         IN  IF msg.Major # Major_LORAWAN_R1 THEN "UnsupportedLoRaWANVersion"
             ELSE IF msg.MType # MType_JOIN_REQUEST THEN "WrongPayloadType"
             ELSE IF pld.Kind # "JoinRequestPayload" THEN "MissingJoinRequest"
             ELSE IF IsZeroBytes(pld.DevEUI) THEN "MissingDevEUI"
             ELSE IF IsZeroBytes(pld.JoinEUI) THEN "MissingJoinEUI"
             ELSE NoError

\* The raw payload the MIC is checked over: the request's, or the
\* serialization of the structured payload when the request has none.
RawPayloadOf(req) ==
    IF IsNil(req.RawPayload)
    THEN MarshalLoRaWAN(req.Payload)
    ELSE Deref(req.RawPayload)

\* The Join-Accept before MIC and encryption: MHDR, then the MAC payload.
JoinAcceptBytes(req, msg, jn) ==
    AppendJoinAcceptPayload(
        <<MHDRByte([MType |-> MType_JOIN_ACCEPT, Major |-> msg.Major])>>,
        req.NetID, jn, req.CFList, Deref(req.DevAddr), req.DLSettings, req.RxDelay)

\* Mutant of CheckDevNonce: the 1.0.x loop stops before the newest used nonce.
CheckDevNonce_SkipsNewest(dev, ver, dn) ==
    IF dev.DisableJoinNonceCheck THEN [Err |-> NoError, Dev |-> dev]
    ELSE IF ver = MAC_V1_1
    THEN IF Uint32Less(Uint32FromUint16(dn), dev.NextDevNonce) THEN [Err |-> "DevNonceTooSmall", Dev |-> dev]
         ELSE IF dev.NextDevNonce = MaxUint32 THEN [Err |-> "DevNonceTooHigh", Dev |-> dev]
         ELSE [Err |-> NoError, Dev |-> [dev EXCEPT !.NextDevNonce = Uint32FromUint16(Uint16(dn + 1))]]
    ELSE IF ver \in {MAC_V1_0, MAC_V1_0_1, MAC_V1_0_2}
    THEN IF \E i \in 1..(Len(dev.UsedDevNonces) - 1) : dn = Uint16FromUint32(dev.UsedDevNonces[i])
         THEN [Err |-> "DevNonceReused", Dev |-> dev]
         ELSE [Err |-> NoError, Dev |-> dev]
    ELSE [Err |-> Panic, Dev |-> dev]

\* Mutant of CheckDevNonce: the checks run whatever DisableJoinNonceCheck is.
CheckDevNonce_IgnoresFlag(dev, ver, dn) ==
    IF ver = MAC_V1_1
    THEN IF Uint32Less(Uint32FromUint16(dn), dev.NextDevNonce) THEN [Err |-> "DevNonceTooSmall", Dev |-> dev]
         ELSE IF dev.NextDevNonce = MaxUint32 THEN [Err |-> "DevNonceTooHigh", Dev |-> dev]
         ELSE [Err |-> NoError, Dev |-> [dev EXCEPT !.NextDevNonce = Uint32FromUint16(Uint16(dn + 1))]]
    ELSE IF ver \in {MAC_V1_0, MAC_V1_0_1, MAC_V1_0_2}
    THEN IF \E i \in 1..Len(dev.UsedDevNonces) : dn = Uint16FromUint32(dev.UsedDevNonces[i])
         THEN [Err |-> "DevNonceReused", Dev |-> dev]
         ELSE [Err |-> NoError, Dev |-> dev]
    ELSE [Err |-> Panic, Dev |-> dev]

\* The DevNonce discipline: the error, and the device with NextDevNonce set.
CheckDevNonce(dev, ver, dn) ==
    IF dev.DisableJoinNonceCheck THEN [Err |-> NoError, Dev |-> dev]
    ELSE IF ver = MAC_V1_1
    THEN IF Uint32Less(Uint32FromUint16(dn), dev.NextDevNonce) THEN [Err |-> "DevNonceTooSmall", Dev |-> dev]
         ELSE IF dev.NextDevNonce = MaxUint32 THEN [Err |-> "DevNonceTooHigh", Dev |-> dev]
         ELSE [Err |-> NoError, Dev |-> [dev EXCEPT !.NextDevNonce = Uint32FromUint16(Uint16(dn + 1))]]
    ELSE IF ver \in {MAC_V1_0, MAC_V1_0_1, MAC_V1_0_2}
    THEN IF \E i \in 1..Len(dev.UsedDevNonces) : dn = Uint16FromUint32(dev.UsedDevNonces[i])
         THEN [Err |-> "DevNonceReused", Dev |-> dev]
         ELSE [Err |-> NoError, Dev |-> dev]
    ELSE [Err |-> Panic, Dev |-> dev]

KeyEnvelope(key) == Some([Key |-> Some(key), KEKLabel |-> ""])

\* Mutant of SessionKeysV1_1: the AppSKey is derived from NwkKey as well.
SessionKeysV1_1_AppSKeyFromNwkKey(nwkKey, appKey, jn, pld) ==
    [SessionKeyID |-> "",
     FNwkSIntKey |-> KeyEnvelope(DeriveFNwkSIntKey(nwkKey, jn, pld.JoinEUI, pld.DevNonce)),
     SNwkSIntKey |-> KeyEnvelope(DeriveSNwkSIntKey(nwkKey, jn, pld.JoinEUI, pld.DevNonce)),
     NwkSEncKey |-> KeyEnvelope(DeriveNwkSEncKey(nwkKey, jn, pld.JoinEUI, pld.DevNonce)),
     AppSKey |-> KeyEnvelope(DeriveAppSKey(nwkKey, jn, pld.JoinEUI, pld.DevNonce))]

\* ttnpb.SessionKeys of the response of a 1.1 join.
SessionKeysV1_1(nwkKey, appKey, jn, pld) ==
    [SessionKeyID |-> "",
     FNwkSIntKey |-> KeyEnvelope(DeriveFNwkSIntKey(nwkKey, jn, pld.JoinEUI, pld.DevNonce)),
     SNwkSIntKey |-> KeyEnvelope(DeriveSNwkSIntKey(nwkKey, jn, pld.JoinEUI, pld.DevNonce)),
     NwkSEncKey |-> KeyEnvelope(DeriveNwkSEncKey(nwkKey, jn, pld.JoinEUI, pld.DevNonce)),
     AppSKey |-> KeyEnvelope(DeriveAppSKey(appKey, jn, pld.JoinEUI, pld.DevNonce))]

\* ttnpb.SessionKeys of the response of a 1.0, 1.0.1 or 1.0.2 join.
SessionKeysLegacy(appKey, jn, netID, pld) ==
    [SessionKeyID |-> "",
     FNwkSIntKey |-> KeyEnvelope(DeriveLegacyNwkSKey(appKey, jn, netID, pld.DevNonce)),
     SNwkSIntKey |-> Nil,
     NwkSEncKey |-> Nil,
     AppSKey |-> KeyEnvelope(DeriveLegacyAppSKey(appKey, jn, netID, pld.DevNonce))]

\* Mutant of JoinResponse: the encrypted bytes follow the whole of b.
JoinResponse_KeepsPlainBody(b, enc, keys) ==
    [RawPayload |-> b \o enc, SessionKeys |-> keys, Lifetime |-> Nil]

JoinResponse(b, enc, keys) ==
    [RawPayload |-> SubSeq(b, 1, 1) \o enc, SessionKeys |-> keys, Lifetime |-> Nil]

\* Mutant of AcceptV1_1: an all-zero NwkKey is used as a key.
AcceptV1_1_AcceptsZeroNwkKey(dev, req, pld, rawPayload, b, jn, appKey, fault) ==
    LET ke == dev.RootKeys.NwkKey
    IN  IF IsNil(ke) THEN Failure("CorruptRegistry", "NwkKeyEnvelopeNotFound", dev)
        ELSE IF IsNil(Deref(ke).Key)
        THEN Failure("CorruptRegistry", "NwkKeyNotFound", dev)
        ELSE LET nwkKey == Deref(Deref(ke).Key)
                 micErr == checkMIC(nwkKey, rawPayload, fault)
                 mic == ComputeJoinAcceptMIC(DeriveJSIntKey(nwkKey, pld.DevEUI), 255,
                                             pld.JoinEUI, pld.DevNonce, b)
                 enc == EncryptJoinAccept(nwkKey, Tail(b) \o mic)
             IN  IF micErr # NoError THEN Failure("MICCheckFailed", micErr, dev)
                 ELSE IF fault = "ComputeJoinAcceptMIC" THEN Failure("ComputeMIC", "crypto", dev)
                 ELSE IF fault = "EncryptJoinAccept" \/ IsNil(enc)
                 THEN Failure("EncryptPayloadFailed", "crypto", dev)
                 ELSE [Err |-> NoError, Cause |-> "",
                       Resp |-> Some(JoinResponse(b, Deref(enc),
                                                  SessionKeysV1_1(nwkKey, appKey, jn, pld))),
                       Dev |-> dev, Stores |-> TRUE]

\* The 1.1 branch: NwkKey, MIC check, Join-Accept MIC, encryption, keys.
AcceptV1_1(dev, req, pld, rawPayload, b, jn, appKey, fault) ==
    LET ke == dev.RootKeys.NwkKey
    IN  IF IsNil(ke) THEN Failure("CorruptRegistry", "NwkKeyEnvelopeNotFound", dev)
        ELSE IF IsNil(Deref(ke).Key) \/ Deref(Deref(ke).Key) = 0
        THEN Failure("CorruptRegistry", "NwkKeyNotFound", dev)
        ELSE LET nwkKey == Deref(Deref(ke).Key)
                 micErr == checkMIC(nwkKey, rawPayload, fault)
                 mic == ComputeJoinAcceptMIC(DeriveJSIntKey(nwkKey, pld.DevEUI), 255,
                                             pld.JoinEUI, pld.DevNonce, b)
                 enc == EncryptJoinAccept(nwkKey, Tail(b) \o mic)
             IN  IF micErr # NoError THEN Failure("MICCheckFailed", micErr, dev)
                 ELSE IF fault = "ComputeJoinAcceptMIC" THEN Failure("ComputeMIC", "crypto", dev)
                 ELSE IF fault = "EncryptJoinAccept" \/ IsNil(enc)
                 THEN Failure("EncryptPayloadFailed", "crypto", dev)
                 ELSE [Err |-> NoError, Cause |-> "",
                       Resp |-> Some(JoinResponse(b, Deref(enc),
                                                  SessionKeysV1_1(nwkKey, appKey, jn, pld))),
                       Dev |-> dev, Stores |-> TRUE]

\* The 1.0, 1.0.1, 1.0.2 branch: everything is keyed by AppKey.
AcceptLegacy(dev, req, pld, rawPayload, b, jn, appKey, fault) ==
    LET micErr == checkMIC(appKey, rawPayload, fault)
        mic == ComputeLegacyJoinAcceptMIC(appKey, b)
        enc == EncryptJoinAccept(appKey, Tail(b) \o mic)
    IN  IF micErr # NoError THEN Failure("MICCheckFailed", micErr, dev)
        ELSE IF fault = "ComputeJoinAcceptMIC" THEN Failure("ComputeMIC", "crypto", dev)
        ELSE IF fault = "EncryptJoinAccept" \/ IsNil(enc)
        THEN Failure("EncryptPayloadFailed", "crypto", dev)
        ELSE [Err |-> NoError, Cause |-> "",
              Resp |-> Some(JoinResponse(b, Deref(enc),
                                         SessionKeysLegacy(appKey, jn, req.NetID, pld))),
              Dev |-> dev, Stores |-> TRUE]

\* Mutant of InstallSession: a device that has a session keeps it.
InstallSession_KeepsSession(dev, dn, devAddr, resp) ==
    [dev EXCEPT !.UsedDevNonces = Append(@, Uint32FromUint16(dn)),
                !.NextJoinNonce = Uint32Inc(@),
                !.Session = IF IsNil(@)
                            THEN Some([DevAddr |-> devAddr, SessionKeys |-> resp.SessionKeys])
                            ELSE @]

\* Mutant of InstallSession: a join switches the nonce check of a test
\* device back on.
InstallSession_EnablesNonceCheck(dev, dn, devAddr, resp) ==
    [dev EXCEPT !.UsedDevNonces = Append(@, Uint32FromUint16(dn)),
                !.NextJoinNonce = Uint32Inc(@),
                !.DisableJoinNonceCheck = FALSE,
                !.Session = Some([DevAddr |-> devAddr, SessionKeys |-> resp.SessionKeys])]

\* The updates of the device made once the response is built.
InstallSession(dev, dn, devAddr, resp) ==
    [dev EXCEPT !.UsedDevNonces = Append(@, Uint32FromUint16(dn)),
                !.NextJoinNonce = Uint32Inc(@),
                !.Session = Some([DevAddr |-> devAddr, SessionKeys |-> resp.SessionKeys])]

\* HandleJoin from the caller check to the updated in-memory device.
JoinWithDevice(req, caller, dev, fault) ==
    LET ver == req.SelectedMacVersion
        msg == Deref(GetPayload(req))
        pld == Deref(msg.Payload)
        rawPayload == RawPayloadOf(req)
        match == \E i \in 1..Len(euiPrefixes) : Matches(euiPrefixes[i], pld.JoinEUI)
        ke == dev.RootKeys.AppKey
    IN  IF caller # dev.NetworkServerAddress THEN Failure("AddressMismatch", "Network Server", dev)
        ELSE IF ~match /\ dev.LoRaWANVersion = MAC_V1_0 THEN Failure("UnknownAppEUI", "", dev)
        ELSE IF ~match THEN Failure("ForwardJoinRequest", "DeviceNotFound", dev)
        ELSE IF Compare(dev.LoRaWANVersion, ver) = -1 THEN Failure("MACVersionMismatch", "", dev)
        ELSE IF IsNil(ke) THEN Failure("CorruptRegistry", "AppKeyEnvelopeNotFound", dev)
        ELSE IF IsNil(Deref(ke).Key) \/ Deref(Deref(ke).Key) = 0
        THEN Failure("CorruptRegistry", "AppKeyNotFound", dev)
        ELSE LET appKey == Deref(Deref(ke).Key)
                 jn == JoinNonceOf(dev.NextJoinNonce)
                 b == JoinAcceptBytes(req, msg, jn)
                 dn == LittleEndianUint16(pld.DevNonce)
                 nonce == CheckDevNonce(dev, ver, dn)
                 r == IF ver = MAC_V1_1
                      THEN AcceptV1_1(nonce.Dev, req, pld, rawPayload, b, jn, appKey, fault)
                      ELSE IF ver \in {MAC_V1_0, MAC_V1_0_1, MAC_V1_0_2}
                      THEN AcceptLegacy(nonce.Dev, req, pld, rawPayload, b, jn, appKey, fault)
                      ELSE Failure(Panic, "", nonce.Dev)
             IN  IF nonce.Err # NoError THEN Failure(nonce.Err, "", dev)
                 ELSE IF r.Err # NoError THEN r
                 ELSE [r EXCEPT !.Dev = InstallSession(nonce.Dev, dn, Deref(req.DevAddr),
                                                       Deref(r.Resp))]

\* Mutant of HandleJoinResult: the MIC is verified before the DevNonce is
\* looked at.
HandleJoinResult_ChecksMICFirst(reg, req, caller, fault) ==
    LET invalid == ValidateJoinRequest(req)
        pld == Deref(Deref(GetPayload(req)).Payload)
        dev == FindByIdentifiers(reg, pld.DevEUI, Some(pld.JoinEUI))
        r == JoinWithDevice(req, caller, Deref(dev), fault)
        unchecked == JoinWithDevice(req, caller,
                                    [Deref(dev) EXCEPT !.DisableJoinNonceCheck = TRUE], fault)
    IN  IF invalid # NoError THEN Failure(invalid, "", reg)
        ELSE IF IsNil(dev) THEN Failure("DeviceNotFound", "", reg)
        ELSE IF r.Err \in {"DevNonceTooSmall", "DevNonceTooHigh", "DevNonceReused"}
                /\ unchecked.Err = "MICCheckFailed"
        THEN Failure(unchecked.Err, unchecked.Cause, Deref(dev))
        ELSE r

\* Mutant of HandleJoinResult: an unmatched JoinEUI is answered with
\* ForwardJoinRequest whatever the registered version.
HandleJoinResult_ForwardsEveryVersion(reg, req, caller, fault) ==
    LET invalid == ValidateJoinRequest(req)
        pld == Deref(Deref(GetPayload(req)).Payload)
        dev == FindByIdentifiers(reg, pld.DevEUI, Some(pld.JoinEUI))
        r == JoinWithDevice(req, caller, Deref(dev), fault)
    IN  IF invalid # NoError THEN Failure(invalid, "", reg)
        ELSE IF IsNil(dev) THEN Failure("DeviceNotFound", "", reg)
        ELSE IF r.Err = "UnknownAppEUI"
        THEN Failure("ForwardJoinRequest", "DeviceNotFound", Deref(dev))
        ELSE r

\* Mutant of HandleJoinResult: the registered version is not compared with
\* the selected one.
HandleJoinResult_AnyRegisteredVersion(reg, req, caller, fault) ==
    LET invalid == ValidateJoinRequest(req)
        pld == Deref(Deref(GetPayload(req)).Payload)
        dev == FindByIdentifiers(reg, pld.DevEUI, Some(pld.JoinEUI))
        r == JoinWithDevice(req, caller, Deref(dev), fault)
        newest == JoinWithDevice(req, caller, [Deref(dev) EXCEPT !.LoRaWANVersion = MAC_V1_1], fault)
    IN  IF invalid # NoError THEN Failure(invalid, "", reg)
        ELSE IF IsNil(dev) THEN Failure("DeviceNotFound", "", reg)
        ELSE IF r.Err = "MACVersionMismatch"
        THEN [newest EXCEPT !.Dev.LoRaWANVersion = Deref(dev).LoRaWANVersion]
        ELSE r

\* Mutant of HandleJoinResult: the caller is compared once every other check
\* of the request has passed.
HandleJoinResult_ChecksCallerLast(reg, req, caller, fault) ==
    LET invalid == ValidateJoinRequest(req)
        pld == Deref(Deref(GetPayload(req)).Payload)
        dev == FindByIdentifiers(reg, pld.DevEUI, Some(pld.JoinEUI))
        r == JoinWithDevice(req, Deref(dev).NetworkServerAddress, Deref(dev), fault)
    IN  IF invalid # NoError THEN Failure(invalid, "", reg)
        ELSE IF IsNil(dev) THEN Failure("DeviceNotFound", "", reg)
        ELSE IF r.Err # NoError THEN r
        ELSE IF caller # Deref(dev).NetworkServerAddress
        THEN Failure("AddressMismatch", "Network Server", Deref(dev))
        ELSE r

\* HandleJoin up to Device.Store, on the registry content reg.
HandleJoinResult(reg, req, caller, fault) ==
    LET invalid == ValidateJoinRequest(req)
        pld == Deref(Deref(GetPayload(req)).Payload)
        dev == FindByIdentifiers(reg, pld.DevEUI, Some(pld.JoinEUI))
    IN  IF invalid # NoError THEN Failure(invalid, "", reg)
        ELSE IF IsNil(dev) THEN Failure("DeviceNotFound", "", reg)
        ELSE JoinWithDevice(req, caller, Deref(dev), fault)

\* ------------------------------------------------- GetAppSKey, GetNwkSKeys

KeyFailure(err) == [Err |-> err, Cause |-> "", Resp |-> Nil]

\* Mutant of SelectSession: the fallback session is taken whatever its id.
SelectSession_AnyFallback(dev, sessionKeyID) ==
    LET s == dev.Session
        f == dev.SessionFallback
    IN  IF IsNil(s) THEN [Err |-> "NoSession", Session |-> Nil]
        ELSE IF Deref(s).SessionKeys.SessionKeyID # sessionKeyID
        THEN IF IsNil(f)
             THEN [Err |-> "SessionKeyIDMismatch", Session |-> Nil]
             ELSE [Err |-> NoError, Session |-> f]
        ELSE [Err |-> NoError, Session |-> s]

\* The session a key request resolves to: the current one, else the fallback.
SelectSession(dev, sessionKeyID) ==
    LET s == dev.Session
        f == dev.SessionFallback
    IN  IF IsNil(s) THEN [Err |-> "NoSession", Session |-> Nil]
        ELSE IF Deref(s).SessionKeys.SessionKeyID # sessionKeyID
        THEN IF IsNil(f) \/ Deref(f).SessionKeys.SessionKeyID # sessionKeyID
             THEN [Err |-> "SessionKeyIDMismatch", Session |-> Nil]
             ELSE [Err |-> NoError, Session |-> f]
        ELSE [Err |-> NoError, Session |-> s]

\* Mutant of GetAppSKeyResult: the caller's address is not compared.
GetAppSKeyResult_AnyCaller(reg, req, caller) ==
    LET dev == FindByIdentifiers(reg, req.DevEUI, Nil)
        sel == SelectSession(Deref(dev), req.SessionKeyID)
        keys == Deref(sel.Session).SessionKeys
    IN  IF IsZeroBytes(req.DevEUI) THEN KeyFailure("MissingDevEUI")
        ELSE IF req.SessionKeyID = "" THEN KeyFailure("MissingSessionKeyID")
        ELSE IF IsNil(dev) THEN KeyFailure("DeviceNotFound")
        ELSE IF sel.Err # NoError THEN KeyFailure(sel.Err)
        ELSE IF IsNil(keys.AppSKey) THEN KeyFailure("AppSKeyEnvelopeNotFound")
        ELSE [Err |-> NoError, Cause |-> "", Resp |-> Some([AppSKey |-> Deref(keys.AppSKey)])]

\* GetAppSKey: the error, or the response with the AppSKey envelope.
GetAppSKeyResult(reg, req, caller) ==
    LET dev == FindByIdentifiers(reg, req.DevEUI, Nil)
        sel == SelectSession(Deref(dev), req.SessionKeyID)
        keys == Deref(sel.Session).SessionKeys
    IN  IF IsZeroBytes(req.DevEUI) THEN KeyFailure("MissingDevEUI")
        ELSE IF req.SessionKeyID = "" THEN KeyFailure("MissingSessionKeyID")
        ELSE IF IsNil(dev) THEN KeyFailure("DeviceNotFound")
        ELSE IF caller # Deref(dev).ApplicationServerAddress
        THEN [Err |-> "AddressMismatch", Cause |-> "Application Server", Resp |-> Nil]
        ELSE IF sel.Err # NoError THEN KeyFailure(sel.Err)
        ELSE IF IsNil(keys.AppSKey) THEN KeyFailure("AppSKeyEnvelopeNotFound")
        ELSE [Err |-> NoError, Cause |-> "", Resp |-> Some([AppSKey |-> Deref(keys.AppSKey)])]

\* Mutant of GetNwkSKeysResult: the device is looked up and the caller
\* compared before the request is validated.
GetNwkSKeysResult_ValidatesLast(reg, req, caller) ==
    LET dev == FindByIdentifiers(reg, req.DevEUI, Nil)
        sel == SelectSession(Deref(dev), req.SessionKeyID)
        keys == Deref(sel.Session).SessionKeys
    IN  IF IsNil(dev) THEN KeyFailure("DeviceNotFound")
        ELSE IF caller # Deref(dev).NetworkServerAddress
        THEN [Err |-> "AddressMismatch", Cause |-> "Network Server", Resp |-> Nil]
        ELSE IF IsZeroBytes(req.DevEUI) THEN KeyFailure("MissingDevEUI")
        ELSE IF req.SessionKeyID = "" THEN KeyFailure("MissingSessionKeyID")
        ELSE IF sel.Err # NoError THEN KeyFailure(sel.Err)
        ELSE IF IsNil(keys.NwkSEncKey) THEN KeyFailure("NwkSEncKeyEnvelopeNotFound")
        ELSE IF IsNil(keys.FNwkSIntKey) THEN KeyFailure("FNwkSIntKeyEnvelopeNotFound")
        ELSE IF IsNil(keys.SNwkSIntKey) THEN KeyFailure("SNwkSIntKeyEnvelopeNotFound")
        ELSE [Err |-> NoError, Cause |-> "",
              Resp |-> Some([NwkSEncKey |-> Deref(keys.NwkSEncKey),
                             FNwkSIntKey |-> Deref(keys.FNwkSIntKey),
                             SNwkSIntKey |-> Deref(keys.SNwkSIntKey)])]

\* Mutant of GetNwkSKeysResult: a missing SNwkSIntKey envelope is reported
\* with the error of the FNwkSIntKey envelope.
GetNwkSKeysResult_OneIntKeyError(reg, req, caller) ==
    LET dev == FindByIdentifiers(reg, req.DevEUI, Nil)
        sel == SelectSession(Deref(dev), req.SessionKeyID)
        keys == Deref(sel.Session).SessionKeys
    IN  IF IsZeroBytes(req.DevEUI) THEN KeyFailure("MissingDevEUI")
        ELSE IF req.SessionKeyID = "" THEN KeyFailure("MissingSessionKeyID")
        ELSE IF IsNil(dev) THEN KeyFailure("DeviceNotFound")
        ELSE IF caller # Deref(dev).NetworkServerAddress
        THEN [Err |-> "AddressMismatch", Cause |-> "Network Server", Resp |-> Nil]
        ELSE IF sel.Err # NoError THEN KeyFailure(sel.Err)
        ELSE IF IsNil(keys.NwkSEncKey) THEN KeyFailure("NwkSEncKeyEnvelopeNotFound")
        ELSE IF IsNil(keys.FNwkSIntKey) \/ IsNil(keys.SNwkSIntKey)
        THEN KeyFailure("FNwkSIntKeyEnvelopeNotFound")
        ELSE [Err |-> NoError, Cause |-> "",
              Resp |-> Some([NwkSEncKey |-> Deref(keys.NwkSEncKey),
                             FNwkSIntKey |-> Deref(keys.FNwkSIntKey),
                             SNwkSIntKey |-> Deref(keys.SNwkSIntKey)])]

\* GetNwkSKeys: the error, or the response with the three network envelopes.
GetNwkSKeysResult(reg, req, caller) ==
    LET dev == FindByIdentifiers(reg, req.DevEUI, Nil)
        sel == SelectSession(Deref(dev), req.SessionKeyID)
        keys == Deref(sel.Session).SessionKeys
    IN  IF IsZeroBytes(req.DevEUI) THEN KeyFailure("MissingDevEUI")
        ELSE IF req.SessionKeyID = "" THEN KeyFailure("MissingSessionKeyID")
        ELSE IF IsNil(dev) THEN KeyFailure("DeviceNotFound")
        ELSE IF caller # Deref(dev).NetworkServerAddress
        THEN [Err |-> "AddressMismatch", Cause |-> "Network Server", Resp |-> Nil]
        ELSE IF sel.Err # NoError THEN KeyFailure(sel.Err)
        ELSE IF IsNil(keys.NwkSEncKey) THEN KeyFailure("NwkSEncKeyEnvelopeNotFound")
        ELSE IF IsNil(keys.FNwkSIntKey) THEN KeyFailure("FNwkSIntKeyEnvelopeNotFound")
        ELSE IF IsNil(keys.SNwkSIntKey) THEN KeyFailure("SNwkSIntKeyEnvelopeNotFound")
        ELSE [Err |-> NoError, Cause |-> "",
              Resp |-> Some([NwkSEncKey |-> Deref(keys.NwkSEncKey),
                             FNwkSIntKey |-> Deref(keys.FNwkSIntKey),
                             SNwkSIntKey |-> Deref(keys.SNwkSIntKey)])]

\* Mutant of StoreOnce: a failed Store is repeated until the record is written.
StoreOnce_RetriesUntilStored(reg, dev, outcome) == dev

\* The single dev.Store() call of HandleJoin: the registry content after it.
StoreOnce(reg, dev, outcome) == StoreDevice(reg, dev, outcome)

\* Mutant of HandleJoinReturn: an error of Store is returned to the caller.
HandleJoinReturn_SurfacesStoreError(r, outcome) ==
    IF r.Stores /\ outcome # "ok"
    THEN [Err |-> outcome, Cause |-> "", Resp |-> Nil]
    ELSE [Err |-> r.Err, Cause |-> r.Cause, Resp |-> r.Resp]

\* The return of HandleJoin once Device.Store has returned outcome: an error
\* of Store is logged, the response is returned with a nil error.
HandleJoinReturn(r, outcome) == [Err |-> r.Err, Cause |-> r.Cause, Resp |-> r.Resp]

\* ---------------------------------------------------- devices and callers

JoinEUI_A == <<66, 255, 255, 255, 255, 255, 255, 255>>
JoinEUI_B == <<66, 15, 255, 255, 255, 255, 255, 255>>
DevEUI_A == <<66, 66, 255, 255, 255, 255, 255, 255>>
DevEUI_B == <<66, 66, 255, 255, 255, 255, 255, 254>>
ZeroEUI == <<0, 0, 0, 0, 0, 0, 0, 0>>

NsAddress == "ns.cluster"
AsAddress == "as.cluster"
Callers == {NsAddress, AsAddress}

RootKeysBoth == [AppKey |-> KeyEnvelope(15), NwkKey |-> KeyEnvelope(240)]
RootKeysAppOnly == [AppKey |-> KeyEnvelope(15), NwkKey |-> Nil]
RootKeysNone == [AppKey |-> Nil, NwkKey |-> Nil]

AppKeyOf(rootKeys) == Deref(Deref(rootKeys.AppKey).Key)
NwkKeyOf(rootKeys) == Deref(Deref(rootKeys.NwkKey).Key)

\* A session an earlier 1.0.2 join left in the record, with the SessionKeyID
\* the rest of the stack gave it.
EarlierSession(id, joinNonce, devNonce) ==
    [DevAddr |-> <<1, 2, 3, 4>>,
     SessionKeys |-> [SessionKeysLegacy(15, JoinNonceOf(joinNonce), <<0, 0, 1>>,
                                        [DevNonce |-> devNonce])
                      EXCEPT !.SessionKeyID = id]]

EndDevice(ver, joinEUI, rootKeys, nextDevNonce, disable) ==
    [JoinEUI |-> joinEUI, DevEUI |-> DevEUI_A,
     LoRaWANVersion |-> ver,
     NetworkServerAddress |-> NsAddress,
     ApplicationServerAddress |-> AsAddress,
     RootKeys |-> rootKeys,
     NextJoinNonce |-> <<0, 1>>,
     NextDevNonce |-> nextDevNonce,
     UsedDevNonces |-> <<>>,
     DisableJoinNonceCheck |-> disable,
     Session |-> Nil,
     SessionFallback |-> Nil]

\* A 1.1 device that joined twice before (DevNonces 7 and 8, as 1.0.2).
RejoinedDevice ==
    [EndDevice(MAC_V1_1, JoinEUI_A, RootKeysBoth, <<0, 0>>, FALSE)
     EXCEPT !.NextJoinNonce = <<0, 3>>,
            !.UsedDevNonces = << <<0, 7>>, <<0, 8>> >>,
            !.Session = Some(EarlierSession("sk-2", <<0, 2>>, <<8, 0>>)),
            !.SessionFallback = Some(EarlierSession("sk-1", <<0, 1>>, <<7, 0>>))]

\* The four envelopes of a 1.1 session, under the SessionKeyID id.
ProvisionedKeys(id, n) ==
    [SessionKeysV1_1(240, 15, JoinNonceOf(<<0, n>>), [JoinEUI |-> JoinEUI_A, DevNonce |-> <<n, 0>>])
     EXCEPT !.SessionKeyID = id]

ProvisionedSession(keys) == Some([DevAddr |-> <<1, 2, 3, 4>>, SessionKeys |-> keys])

\* A 1.1 device with the sessions s and f, as the registry service wrote them.
ProvisionedDevice(s, f) ==
    [EndDevice(MAC_V1_1, JoinEUI_A, RootKeysBoth, <<0, 3>>, FALSE)
     EXCEPT !.NextJoinNonce = <<0, 3>>,
            !.Session = s,
            !.SessionFallback = f]

\* Records with sessions of every shape the key requests tell apart: both
\* sessions complete, no current session, and one envelope missing.
SessionDevices ==
    { ProvisionedDevice(ProvisionedSession(ProvisionedKeys("sk-2", 2)),
                        ProvisionedSession(ProvisionedKeys("sk-1", 1))),
      ProvisionedDevice(Nil, ProvisionedSession(ProvisionedKeys("sk-1", 1))),
      ProvisionedDevice(ProvisionedSession([ProvisionedKeys("sk-2", 2) EXCEPT !.FNwkSIntKey = Nil]),
                        ProvisionedSession([ProvisionedKeys("sk-1", 1) EXCEPT !.SNwkSIntKey = Nil])),
      ProvisionedDevice(ProvisionedSession([ProvisionedKeys("sk-2", 2) EXCEPT !.AppSKey = Nil]),
                        ProvisionedSession([ProvisionedKeys("sk-1", 1) EXCEPT !.NwkSEncKey = Nil])) }

\* 1.0.2 devices that joined until next_join_nonce reached the last value
\* of 24 bits, and the last of 32 bits.
JoinNonceBoundaryDevices ==
    { [EndDevice(MAC_V1_0_2, JoinEUI_A, RootKeysAppOnly, <<0, 0>>, FALSE)
       EXCEPT !.NextJoinNonce = n] : n \in { <<255, 65535>>, MaxUint32 } }

\* A test device (nonce check disabled) that joined before: every 1.1
\* DevNonce below 2 and the 1.0.x DevNonce 1 would be refused with the check
\* enabled.
UncheckedDevices ==
    { [EndDevice(MAC_V1_1, JoinEUI_A, RootKeysBoth, <<0, 2>>, TRUE)
       EXCEPT !.NextJoinNonce = <<0, 2>>,
              !.UsedDevNonces = << <<0, 1>> >>] }

\* The records the registry may hold when the server starts.
InitialDevices ==
    { EndDevice(MAC_V1_1, JoinEUI_A, RootKeysBoth, <<0, 0>>, FALSE),
      EndDevice(MAC_V1_0_2, JoinEUI_A, RootKeysAppOnly, <<0, 0>>, FALSE),
      EndDevice(MAC_V1_1, JoinEUI_A, RootKeysBoth, <<0, 0>>, TRUE),
      EndDevice(MAC_V1_1, JoinEUI_A, RootKeysBoth, MaxUint32, FALSE),
      EndDevice(MAC_V1_0, JoinEUI_B, RootKeysAppOnly, <<0, 0>>, FALSE),
      EndDevice(MAC_V1_0_2, JoinEUI_B, RootKeysAppOnly, <<0, 0>>, FALSE),
      EndDevice(MAC_V1_0_2, JoinEUI_A, RootKeysNone, <<0, 0>>, FALSE),
      RejoinedDevice } \cup JoinNonceBoundaryDevices \cup UncheckedDevices

\* ---------------------------------------------------------------- requests

JoinRequestMessage(joinEUI, devEUI, devNonce, mic) ==
    [MType |-> MType_JOIN_REQUEST, Major |-> Major_LORAWAN_R1, MIC |-> mic,
     Payload |-> Some([Kind |-> "JoinRequestPayload",
                       JoinEUI |-> joinEUI, DevEUI |-> devEUI, DevNonce |-> devNonce])]

\* The Join-Request an end device holding key sends.
SignedJoinRequest(key, joinEUI, devEUI, devNonce) ==
    LET body == MarshalLoRaWAN(JoinRequestMessage(joinEUI, devEUI, devNonce, <<>>))
    IN  body \o ComputeJoinRequestMIC(key, body)

DeviceKeyFor(ver) ==
    IF ver = MAC_V1_1 THEN NwkKeyOf(RootKeysBoth) ELSE AppKeyOf(RootKeysBoth)

\* ttnpb.JoinRequest carrying the raw payload only.
RawJoinRequest(ver, raw) ==
    [SelectedMacVersion |-> ver,
     DevAddr |-> Some(<<1, 2, 3, 4>>),
     RawPayload |-> Some(raw),
     Payload |-> EmptyMessage,
     NetID |-> <<0, 0, 1>>,
     CFList |-> Nil,
     DLSettings |-> 0,
     RxDelay |-> 1]

GoodJoinRequest(ver, joinEUI, devNonce) ==
    RawJoinRequest(ver, SignedJoinRequest(DeviceKeyFor(ver), joinEUI, DevEUI_A, devNonce))

JoinCall(req, caller, fault) == [Req |-> req, Caller |-> caller, Fault |-> fault]

\* Well-formed, correctly signed requests from the device's Network Server.
GoodJoinCalls ==
    { JoinCall(GoodJoinRequest(p[1], JoinEUI_A, p[2]), NsAddress, "none") :
        p \in { <<MAC_V1_1, <<0, 0>> >>, <<MAC_V1_1, <<1, 0>> >>, <<MAC_V1_1, <<255, 255>> >>,
                <<MAC_V1_0_2, <<0, 0>> >>, <<MAC_V1_0_2, <<1, 0>> >>,
                <<MAC_V1_0, <<0, 0>> >>, <<MAC_V1_0_1, <<255, 255>> >> } }

BaseRequest == GoodJoinRequest(MAC_V1_0_2, JoinEUI_A, <<0, 0>>)
BaseRaw == Deref(BaseRequest.RawPayload)
BaseMessage == Deref(UnmarshalLoRaWAN(BaseRaw))

\* The base request in its other forms, and requests failing one check.
OtherJoinCalls ==
    { JoinCall([BaseRequest EXCEPT !.CFList = Some([i \in 1..16 |-> i])], NsAddress, "none"),
      JoinCall([BaseRequest EXCEPT !.RawPayload = Nil, !.Payload = BaseMessage], NsAddress, "none"),
      JoinCall([BaseRequest EXCEPT !.Payload = BaseMessage], NsAddress, "none"),
      JoinCall(BaseRequest, AsAddress, "none"),
      JoinCall(GoodJoinRequest(MAC_V1_1, JoinEUI_A, <<0, 0>>), AsAddress, "none"),
      JoinCall(BaseRequest, NsAddress, "ComputeJoinRequestMIC"),
      JoinCall(BaseRequest, NsAddress, "ComputeJoinAcceptMIC"),
      JoinCall(GoodJoinRequest(MAC_V1_1, JoinEUI_A, <<0, 0>>), NsAddress, "EncryptJoinAccept"),
      JoinCall([BaseRequest EXCEPT !.SelectedMacVersion = MAC_V1_0_3], NsAddress, "none"),
      JoinCall([BaseRequest EXCEPT !.DevAddr = Nil], NsAddress, "none"),
      JoinCall([BaseRequest EXCEPT !.RawPayload = Nil], NsAddress, "none"),
      JoinCall([BaseRequest EXCEPT !.RawPayload = Some(SubSeq(BaseRaw, 1, 22))], NsAddress, "none"),
      JoinCall([BaseRequest EXCEPT !.RawPayload = Some([BaseRaw EXCEPT ![1] = 1])], NsAddress, "none"),
      JoinCall([BaseRequest EXCEPT !.RawPayload = Some([BaseRaw EXCEPT ![1] = 64])], NsAddress, "none"),
      JoinCall([BaseRequest EXCEPT !.RawPayload = Some([BaseRaw EXCEPT ![23] = (@ + 1) % 256])],
               NsAddress, "none"),
      JoinCall(RawJoinRequest(MAC_V1_1, [SignedJoinRequest(240, JoinEUI_A, DevEUI_A, <<1, 0>>)
                                          EXCEPT ![20] = (@ + 1) % 256]), NsAddress, "none"),
      JoinCall(RawJoinRequest(MAC_V1_0_2, SignedJoinRequest(15, JoinEUI_A, ZeroEUI, <<0, 0>>)),
               NsAddress, "none"),
      JoinCall(RawJoinRequest(MAC_V1_0_2, SignedJoinRequest(15, ZeroEUI, DevEUI_A, <<0, 0>>)),
               NsAddress, "none"),
      JoinCall(RawJoinRequest(MAC_V1_0_2, SignedJoinRequest(15, JoinEUI_A, DevEUI_B, <<0, 0>>)),
               NsAddress, "none"),
      JoinCall(GoodJoinRequest(MAC_V1_0, JoinEUI_B, <<0, 0>>), NsAddress, "none") }

\* Requests from a caller that is not the device's Network Server, each
\* failing one of the later checks as well.
MismatchedCallerCalls ==
    { JoinCall([BaseRequest EXCEPT !.RawPayload = Some([BaseRaw EXCEPT ![23] = (@ + 1) % 256])],
               AsAddress, "none"),
      JoinCall(GoodJoinRequest(MAC_V1_0, JoinEUI_B, <<0, 0>>), AsAddress, "none"),
      JoinCall(GoodJoinRequest(MAC_V1_1, JoinEUI_A, <<1, 0>>), AsAddress, "none") }

JoinCalls == GoodJoinCalls \cup OtherJoinCalls \cup MismatchedCallerCalls

SessionKeyRequest(devEUI, id) == [DevEUI |-> devEUI, SessionKeyID |-> id]

KeyCalls ==
    { [Req |-> r, Caller |-> c, Fault |-> "none"] :
        r \in { SessionKeyRequest(DevEUI_A, ""), SessionKeyRequest(DevEUI_A, "sk-1"),
                SessionKeyRequest(DevEUI_A, "sk-2"), SessionKeyRequest(DevEUI_A, "sk-9"),
                SessionKeyRequest(DevEUI_B, "sk-1"), SessionKeyRequest(ZeroEUI, ""),
                SessionKeyRequest(DevEUI_B, "") },
        c \in Callers }

\* ------------------------------------------------------------------ state

VARIABLES
    registry,   \* the end device record the registry holds
    last,       \* the last call that returned: its arguments and its result
    accepted,   \* the joins that returned a response, oldest first
    workers,    \* the HandleJoin invocations in flight (parallel handlers)
    overlap     \* whether two invocations were between lookup and store at once

vars == <<registry, last, accepted, workers, overlap>>

Workers == {1, 2}

IdleWorker == [pc |-> "idle", Call |-> Nil, Dev |-> Nil]

NoCall == [Op |-> "none", Call |-> Nil, Err |-> NoError, Cause |-> "", Resp |-> Nil,
           Store |-> "none", Pre |-> Nil]

Init ==
    /\ registry \in InitialDevices
    /\ last = NoCall
    /\ accepted = <<>>
    /\ workers = [w \in Workers |-> IdleWorker]
    /\ overlap = FALSE

\* What an accepted join is remembered by.
AcceptedJoin(call, r, outcome, pre, w) ==
    [Call |-> call,
     Ver |-> call.Req.SelectedMacVersion,
     DevNonce |-> LittleEndianUint16(Deref(Deref(GetPayload(call.Req)).Payload).DevNonce),
     JoinNonce |-> JoinNonceOf(pre.NextJoinNonce),
     SessionKeys |-> Deref(r.Resp).SessionKeys,
     Stored |-> outcome = "ok",
     Pre |-> pre,
     Worker |-> w]

\* The handlers keep nothing between calls, and a call that returned an error
\* or a key query leaves registry and accepted as they were: the calls that
\* may follow it are those made in its place, so it is the last call of its
\* behaviour. (That such a call changes nothing is itself checked on the step.)
Continues == last.Op = "none" \/ (last.Op = "HandleJoin" /\ last.Err = NoError)

\* One HandleJoin call from its first line to its return.
HandleJoin ==
    /\ Continues
    /\ Len(accepted) < MaxJoins
    /\ \E call \in JoinCalls :
       \E r \in {HandleJoinResult(registry, call.Req, call.Caller, call.Fault)} :
             \E outcome \in (IF r.Stores THEN StoreOutcomes ELSE {"none"}) :
               LET ret == HandleJoinReturn(r, outcome)
               IN  /\ registry' = IF r.Stores THEN StoreOnce(registry, r.Dev, outcome)
                                  ELSE registry
                   /\ last' = [Op |-> "HandleJoin", Call |-> Some(call), Err |-> ret.Err,
                               Cause |-> ret.Cause, Resp |-> ret.Resp, Store |-> outcome,
                               Pre |-> Some(registry)]
                   /\ accepted' = IF ret.Err = NoError
                                  THEN Append(accepted, AcceptedJoin(call, r, outcome, registry, 0))
                                  ELSE accepted
    /\ UNCHANGED <<workers, overlap>>

GetAppSKey ==
    /\ Continues
    /\ \E call \in KeyCalls :
         LET r == GetAppSKeyResult(registry, call.Req, call.Caller)
         IN  last' = [Op |-> "GetAppSKey", Call |-> Some(call), Err |-> r.Err,
                      Cause |-> r.Cause, Resp |-> r.Resp, Store |-> "none",
                      Pre |-> Some(registry)]
    /\ UNCHANGED <<registry, accepted, workers, overlap>>

GetNwkSKeys ==
    /\ Continues
    /\ \E call \in KeyCalls :
         LET r == GetNwkSKeysResult(registry, call.Req, call.Caller)
         IN  last' = [Op |-> "GetNwkSKeys", Call |-> Some(call), Err |-> r.Err,
                      Cause |-> r.Cause, Resp |-> r.Resp, Store |-> "none",
                      Pre |-> Some(registry)]
    /\ UNCHANGED <<registry, accepted, workers, overlap>>

Next == HandleJoin \/ GetAppSKey \/ GetNwkSKeys

Spec == Init /\ [][Next]_vars

\* ------------------------------------------------------ checks of one join
\* What HandleJoin answers depends on the request and on the record it reads:
\* the checks are exercised by one call on every record that fails one of
\* them, with requests that fail several.

RootKeysOf(appKey, nwkKey) == [AppKey |-> appKey, NwkKey |-> nwkKey]

NilKeyEnvelope == Some([Key |-> Nil, KEKLabel |-> ""])

\* Records of every registered version, with and without a JoinEUI the
\* server handles, and records whose root keys are absent, nil or zero.
CheckedDevices ==
    { EndDevice(ver, eui, RootKeysBoth, <<0, 0>>, FALSE) :
        ver \in {MAC_V1_0, MAC_V1_0_1, MAC_V1_0_2, MAC_V1_0_3, MAC_V1_1},
        eui \in {JoinEUI_A, JoinEUI_B} }
    \cup
    { EndDevice(MAC_V1_1, JoinEUI_A, RootKeysOf(a, n), <<0, 0>>, FALSE) :
        a \in {Nil, NilKeyEnvelope, KeyEnvelope(0), KeyEnvelope(15)},
        n \in {Nil, NilKeyEnvelope, KeyEnvelope(0), KeyEnvelope(240)} }

\* Requests for the records above: a JoinEUI no prefix matches under each
\* selected version, and each selected version on a matching JoinEUI.
CheckedJoinCalls ==
    { JoinCall(GoodJoinRequest(ver, eui, <<0, 0>>), NsAddress, "none") :
        ver \in {MAC_V1_0, MAC_V1_0_1, MAC_V1_0_2, MAC_V1_1},
        eui \in {JoinEUI_A, JoinEUI_B} }

\* The structured payloads a request may carry: every combination of Major,
\* MType, payload kind, DevEUI (the device's, an unknown one, zero) and
\* JoinEUI (handled, zero).
StructuredPayloads ==
    { [MType |-> mtype, Major |-> major, MIC |-> <<1, 2, 3, 4>>,
       Payload |-> Some(IF kind = "JoinRequestPayload"
                        THEN [Kind |-> kind, JoinEUI |-> joinEUI, DevEUI |-> devEUI,
                              DevNonce |-> <<0, 0>>]
                        ELSE [Kind |-> kind, JoinEUI |-> <<>>, DevEUI |-> <<>>,
                              DevNonce |-> <<>>])] :
        mtype \in {MType_JOIN_REQUEST, MType_UNCONFIRMED_UP},
        major \in {Major_LORAWAN_R1, 1},
        kind \in {"JoinRequestPayload", "MACPayload"},
        devEUI \in {DevEUI_A, DevEUI_B, ZeroEUI},
        joinEUI \in {JoinEUI_A, ZeroEUI} }

\* Requests that fail any number of the checks made before the lookup.
\* Records of devices that joined before (DevNonce 7, next_dev_nonce 8), of
\* each registered version and with root keys present or absent.
ReplayedDevices ==
    { [EndDevice(ver, eui, RootKeysOf(a, n), <<0, 8>>, FALSE)
       EXCEPT !.UsedDevNonces = << <<0, 7>> >>, !.NextJoinNonce = <<0, 2>>] :
        ver \in {MAC_V1_0, MAC_V1_0_2, MAC_V1_1},
        eui \in {JoinEUI_A, JoinEUI_B},
        a \in {Nil, KeyEnvelope(15)},
        n \in {Nil, KeyEnvelope(240)} }

\* Valid requests that may fail several of the checks made with the device
\* record: another DevEUI or JoinEUI, another caller, a DevNonce seen before,
\* a MIC that does not verify.
LateCheckCalls ==
    { JoinCall(RawJoinRequest(ver, [SignedJoinRequest(DeviceKeyFor(ver), joinEUI, devEUI, dn)
                                    EXCEPT ![RawJoinRequestLen] = (@ + micOff) % 256]),
               caller, "none") :
        ver \in {MAC_V1_0_2, MAC_V1_1},
        joinEUI \in {JoinEUI_A, JoinEUI_B},
        devEUI \in {DevEUI_A, DevEUI_B},
        dn \in { <<0, 0>>, <<7, 0>>, <<9, 0>> },
        micOff \in {0, 1},
        caller \in {NsAddress, AsAddress} }

\* Raw payloads a request of version ver may carry next to a structured
\* payload: signed for DevNonce 0 or 9, for another DevEUI, with another
\* Major in the MHDR (and signed so), with one byte of the MIC changed, and
\* one byte short or long.
RawVariants(ver) ==
    LET key == DeviceKeyFor(ver)
        signed == SignedJoinRequest(key, JoinEUI_A, DevEUI_A, <<0, 0>>)
        body == [SubSeq(signed, 1, MICOffset) EXCEPT ![1] = @ + 1]
    IN  { signed,
          SignedJoinRequest(key, JoinEUI_A, DevEUI_A, <<9, 0>>),
          SignedJoinRequest(key, JoinEUI_A, DevEUI_B, <<0, 0>>),
          body \o ComputeJoinRequestMIC(key, body),
          SubSeq(signed, 1, RawJoinRequestLen - 1),
          signed \o <<0>> }
        \cup { [signed EXCEPT ![i] = (@ + 1) % 256] : i \in (MICOffset + 1)..RawJoinRequestLen }

\* Requests with a structured payload, and with a raw payload that agrees
\* with it, differs from it, or is absent.
PayloadPairCalls ==
    { JoinCall([RawJoinRequest(ver, <<>>) EXCEPT !.RawPayload = raw, !.Payload = msg],
               NsAddress, "none") :
        ver \in {MAC_V1_0_2, MAC_V1_1},
        raw \in {Nil} \cup { Some(r) : r \in RawVariants(MAC_V1_0_2) \cup RawVariants(MAC_V1_1) },
        msg \in { Deref(UnmarshalLoRaWAN(SignedJoinRequest(k, JoinEUI_A, DevEUI_A, dn))) :
                    k \in {DeviceKeyFor(MAC_V1_0_2), DeviceKeyFor(MAC_V1_1), 1},
                    dn \in { <<0, 0>>, <<9, 0>> } } }

\* Join-Requests of each branch with a CFList for the Join-Accept.
CFListJoinCalls ==
    { JoinCall([GoodJoinRequest(ver, JoinEUI_A, <<0, 0>>)
                EXCEPT !.CFList = Some([i \in 1..16 |-> i])], NsAddress, fault) :
        ver \in {MAC_V1_0, MAC_V1_0_2, MAC_V1_1}, fault \in CryptoFaults }

InvalidJoinCalls ==
    { JoinCall([BaseRequest EXCEPT !.SelectedMacVersion = ver, !.DevAddr = devAddr,
                                   !.RawPayload = raw, !.Payload = msg],
               NsAddress, "none") :
        ver \in {MAC_V1_0_2, MAC_V1_0_3, MAC_UNKNOWN},
        devAddr \in {Nil, Some(<<1, 2, 3, 4>>)},
        raw \in {Nil, Some(SubSeq(BaseRaw, 1, 22))},
        msg \in StructuredPayloads \cup {EmptyMessage} }

InitChecks ==
    /\ registry \in InitialDevices \cup CheckedDevices \cup ReplayedDevices
    /\ last = NoCall
    /\ accepted = <<>>
    /\ workers = [w \in Workers |-> IdleWorker]
    /\ overlap = FALSE

\* The first HandleJoin call the server gets, from its first line to its
\* return.
FirstJoin ==
    /\ last.Op = "none"
    /\ \E call \in JoinCalls \cup CheckedJoinCalls \cup InvalidJoinCalls \cup LateCheckCalls
                     \cup PayloadPairCalls \cup CFListJoinCalls :
       \E r \in {HandleJoinResult(registry, call.Req, call.Caller, call.Fault)} :
             \E outcome \in (IF r.Stores THEN StoreOutcomes ELSE {"none"}) :
               LET ret == HandleJoinReturn(r, outcome)
               IN  /\ registry' = IF r.Stores THEN StoreOnce(registry, r.Dev, outcome)
                                  ELSE registry
                   /\ last' = [Op |-> "HandleJoin", Call |-> Some(call), Err |-> ret.Err,
                               Cause |-> ret.Cause, Resp |-> ret.Resp, Store |-> outcome,
                               Pre |-> Some(registry)]
                   /\ accepted' = IF ret.Err = NoError
                                  THEN Append(accepted, AcceptedJoin(call, r, outcome, registry, 0))
                                  ELSE accepted
    /\ UNCHANGED <<workers, overlap>>

NextChecks == FirstJoin

SpecChecks == InitChecks /\ [][NextChecks]_vars

\* ------------------------------------------------------------ key requests
\* GetAppSKey and GetNwkSKeys read the record and write nothing: they are
\* checked on every record the registry may hold, the provisioned ones too.

InitKeys ==
    /\ registry \in InitialDevices \cup SessionDevices
    /\ last = NoCall
    /\ accepted = <<>>
    /\ workers = [w \in Workers |-> IdleWorker]
    /\ overlap = FALSE

NextKeys == GetAppSKey \/ GetNwkSKeys

SpecKeys == InitKeys /\ [][NextKeys]_vars

\* ------------------------------------------------------ parallel handlers
\* HandleJoin runs once per request, in parallel: the registry lookup and the
\* store are separate registry accesses, and nothing is held between them.

ParInitialDevices ==
    { EndDevice(MAC_V1_1, JoinEUI_A, RootKeysBoth, <<0, 0>>, FALSE),
      EndDevice(MAC_V1_0_2, JoinEUI_A, RootKeysAppOnly, <<0, 0>>, FALSE) }

ParJoinCalls ==
    { JoinCall(GoodJoinRequest(MAC_V1_1, JoinEUI_A, <<0, 0>>), NsAddress, "none"),
      JoinCall(GoodJoinRequest(MAC_V1_1, JoinEUI_A, <<1, 0>>), NsAddress, "none"),
      JoinCall(GoodJoinRequest(MAC_V1_0_2, JoinEUI_A, <<0, 0>>), NsAddress, "none"),
      JoinCall(GoodJoinRequest(MAC_V1_0_2, JoinEUI_A, <<1, 0>>), NsAddress, "none"),
      JoinCall(BaseRequest, AsAddress, "none"),
      JoinCall(RawJoinRequest(MAC_V1_0_2, SignedJoinRequest(15, JoinEUI_A, DevEUI_B, <<0, 0>>)),
               NsAddress, "none") }

InitPar ==
    /\ registry \in ParInitialDevices
    /\ last = NoCall
    /\ accepted = <<>>
    /\ workers = [w \in Workers |-> IdleWorker]
    /\ overlap = FALSE

\* HandleJoin of worker w up to the return of FindByIdentifiers.
BeginJoin(w) ==
    /\ workers[w].pc = "idle"
    /\ \E call \in ParJoinCalls :
         LET invalid == ValidateJoinRequest(call.Req)
             pld == Deref(Deref(GetPayload(call.Req)).Payload)
             dev == FindByIdentifiers(registry, pld.DevEUI, Some(pld.JoinEUI))
         IN  IF invalid # NoError \/ IsNil(dev)
             THEN /\ workers' = [workers EXCEPT ![w] = [pc |-> "done", Call |-> Some(call), Dev |-> Nil]]
                  /\ last' = [Op |-> "HandleJoin", Call |-> Some(call),
                              Err |-> IF invalid # NoError THEN invalid ELSE "DeviceNotFound",
                              Cause |-> "", Resp |-> Nil, Store |-> "none", Pre |-> Some(registry)]
                  /\ UNCHANGED overlap
             ELSE /\ workers' = [workers EXCEPT ![w] = [pc |-> "found", Call |-> Some(call), Dev |-> dev]]
                  /\ overlap' = (overlap \/ \E o \in Workers \ {w} : workers[o].pc = "found")
                  /\ UNCHANGED last
    /\ UNCHANGED <<registry, accepted>>

\* Mutant of FinishJoin: after a store conflict the invocation starts over
\* from the registry lookup, any number of times.
FinishJoin_RetriesOnConflict(w) ==
    /\ workers[w].pc = "found"
    /\ LET call == Deref(workers[w].Call)
           dev == Deref(workers[w].Dev)
       IN  \E r \in {JoinWithDevice(call.Req, call.Caller, dev, call.Fault)} :
             \E outcome \in (IF r.Stores THEN StoreOutcomes ELSE {"none"}) :
               LET ret == HandleJoinReturn(r, outcome)
               IN  /\ registry' = IF r.Stores THEN StoreOnce(registry, r.Dev, outcome)
                                  ELSE registry
                   /\ last' = [Op |-> "HandleJoin", Call |-> Some(call), Err |-> ret.Err,
                               Cause |-> ret.Cause, Resp |-> ret.Resp, Store |-> outcome,
                               Pre |-> Some(dev)]
                   /\ accepted' = IF ret.Err = NoError /\ outcome # "ConflictError"
                                  THEN Append(accepted, AcceptedJoin(call, r, outcome, dev, w))
                                  ELSE accepted
                   /\ workers' = IF outcome = "ConflictError"
                                 THEN [workers EXCEPT ![w] = IdleWorker]
                                 ELSE [workers EXCEPT ![w].pc = "done"]
    /\ UNCHANGED overlap

\* HandleJoin of worker w from the caller check to its return, on the device
\* it read.
FinishJoin(w) ==
    /\ workers[w].pc = "found"
    /\ LET call == Deref(workers[w].Call)
           dev == Deref(workers[w].Dev)
       IN  \E r \in {JoinWithDevice(call.Req, call.Caller, dev, call.Fault)} :
             \E outcome \in (IF r.Stores THEN StoreOutcomes ELSE {"none"}) :
               LET ret == HandleJoinReturn(r, outcome)
               IN  /\ registry' = IF r.Stores THEN StoreOnce(registry, r.Dev, outcome)
                                  ELSE registry
                   /\ last' = [Op |-> "HandleJoin", Call |-> Some(call), Err |-> ret.Err,
                               Cause |-> ret.Cause, Resp |-> ret.Resp, Store |-> outcome,
                               Pre |-> Some(dev)]
                   /\ accepted' = IF ret.Err = NoError
                                  THEN Append(accepted, AcceptedJoin(call, r, outcome, dev, w))
                                  ELSE accepted
    /\ workers' = [workers EXCEPT ![w].pc = "done"]
    /\ UNCHANGED overlap

NextPar == \E w \in Workers : BeginJoin(w) \/ FinishJoin(w)

SpecPar == InitPar /\ [][NextPar]_vars

\* ------------------------------------ Network Server: RxParamSetupAns
\* handleRxParamSetupAns(ctx, dev, pld) of the Network Server, as its test
\* table gives it: the device is an end device with a MACState and the MAC
\* commands that wait for their answer.

RxParamSetupReq(offset, index, frequency) ==
    [CID |-> "RX_PARAM_SETUP", Rx1DataRateOffset |-> offset, Rx2DataRateIndex |-> index,
     Rx2Frequency |-> frequency]

RxParamSetupAns(offsetAck, indexAck, frequencyAck) ==
    [Rx1DataRateOffsetAck |-> offsetAck, Rx2DataRateIndexAck |-> indexAck,
     Rx2FrequencyAck |-> frequencyAck]

\* A pending command of another kind.
DevStatusReq ==
    [CID |-> "DEV_STATUS", Rx1DataRateOffset |-> 0, Rx2DataRateIndex |-> 0, Rx2Frequency |-> 0]

\* The position of the first command with the CID cid in cmds, 0 if none.
FirstPending(cmds, cid) ==
    IF \E i \in 1..Len(cmds) : cmds[i].CID = cid
    THEN CHOOSE i \in 1..Len(cmds) :
            cmds[i].CID = cid /\ \A j \in 1..(i - 1) : cmds[j].CID # cid
    ELSE 0

\* cmds without its i-th command.
WithoutCommand(cmds, i) == SubSeq(cmds, 1, i - 1) \o SubSeq(cmds, i + 1, Len(cmds))

\* Mutant of handleRxParamSetupAns: each acknowledged parameter is applied.
handleRxParamSetupAns_AppliesAckedOnes(dev, pld) ==
    LET i == FirstPending(dev.PendingMACCommands, "RX_PARAM_SETUP")
        req == dev.PendingMACCommands[i]
        ans == Deref(pld)
    IN  IF IsNil(pld) THEN [Err |-> "MissingPayload", Dev |-> dev]
        ELSE IF i = 0 THEN [Err |-> "MACRequestNotFound", Dev |-> dev]
        ELSE [Err |-> NoError,
              Dev |-> [dev EXCEPT
                         !.PendingMACCommands = WithoutCommand(@, i),
                         !.MACState.Rx1DataRateOffset =
                             IF ans.Rx1DataRateOffsetAck THEN req.Rx1DataRateOffset ELSE @,
                         !.MACState.Rx2DataRateIndex =
                             IF ans.Rx2DataRateIndexAck THEN req.Rx2DataRateIndex ELSE @,
                         !.MACState.Rx2Frequency =
                             IF ans.Rx2FrequencyAck THEN req.Rx2Frequency ELSE @]]

\* Mutant of handleRxParamSetupAns: the pending request is dropped before the
\* payload is looked at.
handleRxParamSetupAns_DropsRequestFirst(dev, pld) ==
    LET i == FirstPending(dev.PendingMACCommands, "RX_PARAM_SETUP")
        req == dev.PendingMACCommands[i]
        ans == Deref(pld)
        dropped == [dev EXCEPT !.PendingMACCommands = WithoutCommand(@, i)]
    IN  IF i = 0 THEN [Err |-> "MACRequestNotFound", Dev |-> dev]
        ELSE IF IsNil(pld) THEN [Err |-> "MissingPayload", Dev |-> dropped]
        ELSE IF ans.Rx1DataRateOffsetAck /\ ans.Rx2DataRateIndexAck /\ ans.Rx2FrequencyAck
        THEN [Err |-> NoError,
              Dev |-> [dropped EXCEPT !.MACState.Rx1DataRateOffset = req.Rx1DataRateOffset,
                                      !.MACState.Rx2DataRateIndex = req.Rx2DataRateIndex,
                                      !.MACState.Rx2Frequency = req.Rx2Frequency]]
        ELSE [Err |-> NoError, Dev |-> dropped]

\* handleRxParamSetupAns: the error, and the device as the handler leaves it.
handleRxParamSetupAns(dev, pld) ==
    LET i == FirstPending(dev.PendingMACCommands, "RX_PARAM_SETUP")
        req == dev.PendingMACCommands[i]
        ans == Deref(pld)
        dropped == [dev EXCEPT !.PendingMACCommands = WithoutCommand(@, i)]
    IN  IF IsNil(pld) THEN [Err |-> "MissingPayload", Dev |-> dev]
        ELSE IF i = 0 THEN [Err |-> "MACRequestNotFound", Dev |-> dev]
        ELSE IF ans.Rx1DataRateOffsetAck /\ ans.Rx2DataRateIndexAck /\ ans.Rx2FrequencyAck
        THEN [Err |-> NoError,
              Dev |-> [dropped EXCEPT !.MACState.Rx1DataRateOffset = req.Rx1DataRateOffset,
                                      !.MACState.Rx2DataRateIndex = req.Rx2DataRateIndex,
                                      !.MACState.Rx2Frequency = req.Rx2Frequency]]
        ELSE [Err |-> NoError, Dev |-> dropped]

\* The MAC states and pending command lists of the devices answered for.
MACStates ==
    { [Rx1DataRateOffset |-> 99, Rx2DataRateIndex |-> 0, Rx2Frequency |-> 99],
      [Rx1DataRateOffset |-> 42, Rx2DataRateIndex |-> 43, Rx2Frequency |-> 44] }

PendingLists ==
    { <<>>,
      <<DevStatusReq>>,
      <<RxParamSetupReq(42, 43, 44)>>,
      <<DevStatusReq, RxParamSetupReq(42, 43, 44)>>,
      <<RxParamSetupReq(42, 43, 44), DevStatusReq>>,
      <<RxParamSetupReq(1, 2, 3), RxParamSetupReq(42, 43, 44)>> }

\* The answers: none (nil), and every combination of the three acks.
RxParamSetupAnswers ==
    {Nil} \cup { Some(RxParamSetupAns(a, b, c)) : a \in BOOLEAN, b \in BOOLEAN, c \in BOOLEAN }

InitMAC ==
    /\ registry \in { [MACState |-> m, PendingMACCommands |-> p] :
                         m \in MACStates, p \in PendingLists }
    /\ last = NoCall
    /\ accepted = <<>>
    /\ workers = [w \in Workers |-> IdleWorker]
    /\ overlap = FALSE

\* One handleRxParamSetupAns call on the device, from an uplink's answer.
HandleRxParamSetupAns ==
    /\ \E pld \in RxParamSetupAnswers :
         LET r == handleRxParamSetupAns(registry, pld)
         IN  /\ registry' = r.Dev
             /\ last' = [Op |-> "handleRxParamSetupAns", Call |-> Some([Payload |-> pld]),
                         Err |-> r.Err, Cause |-> "", Resp |-> Nil, Store |-> "none",
                         Pre |-> Some(registry)]
    /\ UNCHANGED <<accepted, workers, overlap>>

NextMAC == HandleRxParamSetupAns

SpecMAC == InitMAC /\ [][NextMAC]_vars

\* ------------------------------------------------- calls one after another
\* Sequences of calls in which a call follows any other, refused or not:
\* last.Before keeps the call made before the last one.

\* 1.1 devices with next_dev_nonce 0 or 1, one of them without NwkKey, and
\* one that has two sessions and next_dev_nonce 3.
RetryDevices ==
    { EndDevice(MAC_V1_1, JoinEUI_A, RootKeysBoth, <<0, 0>>, FALSE),
      EndDevice(MAC_V1_1, JoinEUI_A, RootKeysBoth, <<0, 1>>, FALSE),
      EndDevice(MAC_V1_1, JoinEUI_A, RootKeysAppOnly, <<0, 0>>, FALSE),
      ProvisionedDevice(ProvisionedSession(ProvisionedKeys("sk-2", 2)),
                        ProvisionedSession(ProvisionedKeys("sk-1", 1))) }

\* 1.1 Join-Requests with DevNonce 0 to 3, signed by the device or not.
RetryCalls ==
    { JoinCall(RawJoinRequest(MAC_V1_1,
                              [SignedJoinRequest(DeviceKeyFor(MAC_V1_1), JoinEUI_A, DevEUI_A, dn)
                               EXCEPT ![RawJoinRequestLen] = (@ + micOff) % 256]),
               NsAddress, "none") :
        dn \in { <<0, 0>>, <<1, 0>>, <<2, 0>>, <<3, 0>> }, micOff \in {0, 1} }

\* Key requests of either server: without SessionKeyID, for a session of
\* a provisioned device, and for the session of no device.
RetryKeyCalls ==
    { [Req |-> SessionKeyRequest(DevEUI_A, id), Caller |-> c, Fault |-> "none"] :
        id \in {"", "sk-1", "sk-9"}, c \in {NsAddress, AsAddress} }

Before == [Op |-> last.Op, Call |-> last.Call, Err |-> last.Err, Pre |-> last.Pre]

InitRetry ==
    /\ registry \in RetryDevices
    /\ last = NoCall
    /\ accepted = <<>>
    /\ workers = [w \in Workers |-> IdleWorker]
    /\ overlap = FALSE

\* A HandleJoin call, whatever the call before it returned.
RetriedJoin ==
    /\ Len(accepted) < MaxJoins
    /\ \E call \in RetryCalls :
       \E r \in {HandleJoinResult(registry, call.Req, call.Caller, call.Fault)} :
             \E outcome \in (IF r.Stores THEN {"ok"} ELSE {"none"}) :
               LET ret == HandleJoinReturn(r, outcome)
               IN  /\ registry' = IF r.Stores THEN StoreOnce(registry, r.Dev, outcome)
                                  ELSE registry
                   /\ last' = [Op |-> "HandleJoin", Call |-> Some(call), Err |-> ret.Err,
                               Cause |-> ret.Cause, Resp |-> ret.Resp, Store |-> outcome,
                               Pre |-> Some(registry), Before |-> Before]
                   /\ accepted' = IF ret.Err = NoError
                                  THEN Append(accepted, AcceptedJoin(call, r, outcome, registry, 0))
                                  ELSE accepted
    /\ UNCHANGED <<workers, overlap>>

\* Mutant of InterleavedGetAppSKey: serving the AppSKey takes the DevNonce
\* counter of the device one further.
InterleavedGetAppSKey_AdvancesDevNonce ==
    /\ \E call \in RetryKeyCalls :
         LET r == GetAppSKeyResult(registry, call.Req, call.Caller)
         IN  last' = [Op |-> "GetAppSKey", Call |-> Some(call), Err |-> r.Err,
                      Cause |-> r.Cause, Resp |-> r.Resp, Store |-> "none",
                      Pre |-> Some(registry), Before |-> Before]
    /\ registry' = [registry EXCEPT !.NextDevNonce = Uint32Inc(@)]
    /\ UNCHANGED <<accepted, workers, overlap>>

\* A GetAppSKey call between the joins.
InterleavedGetAppSKey ==
    /\ \E call \in RetryKeyCalls :
         LET r == GetAppSKeyResult(registry, call.Req, call.Caller)
         IN  last' = [Op |-> "GetAppSKey", Call |-> Some(call), Err |-> r.Err,
                      Cause |-> r.Cause, Resp |-> r.Resp, Store |-> "none",
                      Pre |-> Some(registry), Before |-> Before]
    /\ UNCHANGED <<registry, accepted, workers, overlap>>

\* A GetNwkSKeys call between the joins.
InterleavedGetNwkSKeys ==
    /\ \E call \in RetryKeyCalls :
         LET r == GetNwkSKeysResult(registry, call.Req, call.Caller)
         IN  last' = [Op |-> "GetNwkSKeys", Call |-> Some(call), Err |-> r.Err,
                      Cause |-> r.Cause, Resp |-> r.Resp, Store |-> "none",
                      Pre |-> Some(registry), Before |-> Before]
    /\ UNCHANGED <<registry, accepted, workers, overlap>>

NextRetry == RetriedJoin \/ InterleavedGetAppSKey \/ InterleavedGetNwkSKeys

SpecRetry == InitRetry /\ [][NextRetry]_vars

\* ------------------------------------------------------------ properties

LegacyVersions == {MAC_V1_0, MAC_V1_0_1, MAC_V1_0_2}

LastIsJoin == last.Op = "HandleJoin"
LastAccepted == LastIsJoin /\ last.Err = NoError
LastCall == Deref(last.Call)

\* The call made right before the last one returned: every call that is not
\* the last of its behaviour is an accepted join.
PreviousJoin == IF LastAccepted THEN Len(accepted) - 1 ELSE Len(accepted)

\* C1 as stated: with the nonce check enabled, no DevNonce is accepted by two
\* joins of selected version 1.0, 1.0.1 or 1.0.2, and resubmitting an
\* accepted request fails with DevNonceReused.
C1_NoDevNonceAcceptedTwice ==
    \A i \in 1..Len(accepted) :
      (accepted[i].Ver \in LegacyVersions /\ ~accepted[i].Pre.DisableJoinNonceCheck) =>
        /\ \A j \in (i + 1)..Len(accepted) :
             accepted[j].Ver \in LegacyVersions => accepted[j].DevNonce # accepted[i].DevNonce
        /\ (LastIsJoin /\ last.Call = Some(accepted[i].Call) /\ PreviousJoin >= i)
             => last.Err = "DevNonceReused"

\* C1 amended: with the nonce check enabled, a DevNonce accepted by a 1.0.x
\* join whose registry store succeeded is accepted by no later 1.0.x join,
\* and resubmitting that request fails with DevNonceReused.
C1_NoStoredDevNonceAcceptedAgain ==
    \A i \in 1..Len(accepted) :
      (/\ accepted[i].Ver \in LegacyVersions
       /\ ~accepted[i].Pre.DisableJoinNonceCheck
       /\ accepted[i].Stored) =>
        /\ \A j \in (i + 1)..Len(accepted) :
             accepted[j].Ver \in LegacyVersions => accepted[j].DevNonce # accepted[i].DevNonce
        /\ (LastIsJoin /\ last.Call = Some(accepted[i].Call) /\ PreviousJoin >= i)
             => last.Err = "DevNonceReused"

\* C1 witness: a stored 1.0.x join, and its request resubmitted and refused.
C1_Witness ==
    /\ LastIsJoin /\ last.Err = "DevNonceReused"
    /\ \E i \in 1..Len(accepted) :
         /\ accepted[i].Stored /\ accepted[i].Ver \in LegacyVersions
         /\ last.Call = Some(accepted[i].Call)

\* C2: with the nonce check enabled, the DevNonces accepted by 1.1 joins of a
\* device are strictly increasing, over the whole range 0x0000..0xFFFF (here
\* for joins following one whose store succeeded).
C2_AcceptedDevNoncesIncrease ==
    \A i \in 1..Len(accepted) : \A j \in (i + 1)..Len(accepted) :
      (/\ accepted[i].Ver = MAC_V1_1 /\ accepted[j].Ver = MAC_V1_1
       /\ ~accepted[i].Pre.DisableJoinNonceCheck
       /\ \A k \in i..(j - 1) : accepted[k].Stored)
        => accepted[i].DevNonce < accepted[j].DevNonce

\* C3: two HandleJoin invocations that overlap on one device behave as in a
\* serial order: they are not both accepted for the same request, and they
\* are not issued the same JoinNonce.
C3_ParallelJoinsSerialized ==
    overlap =>
      \A i \in 1..Len(accepted) : \A j \in (i + 1)..Len(accepted) :
        /\ accepted[i].Call # accepted[j].Call
        /\ accepted[i].JoinNonce # accepted[j].JoinNonce

\* C4: after a successful join of a device that had a session, the fallback
\* session is the session the device had before the join.
C4_SessionRotates ==
    (LastAccepted /\ last.Store = "ok" /\ ~IsNil(Deref(last.Pre).Session))
      => registry.SessionFallback = Deref(last.Pre).Session

\* C5: after two consecutive successful joins, the key queries of the right
\* callers with the first session's SessionKeyID return the envelopes the
\* first join issued.
C5_FirstSessionKeysRetrievable ==
    (/\ Len(accepted) = 2 /\ accepted[1].Stored /\ accepted[2].Stored
     /\ last.Op \in {"GetAppSKey", "GetNwkSKeys"}
     /\ LastCall.Req.DevEUI = registry.DevEUI
     /\ LastCall.Req.SessionKeyID = accepted[1].SessionKeys.SessionKeyID
     /\ LastCall.Caller = (IF last.Op = "GetAppSKey" THEN registry.ApplicationServerAddress
                           ELSE registry.NetworkServerAddress))
      => /\ last.Err = NoError
         /\ last.Op = "GetAppSKey"
              => Some(Deref(last.Resp).AppSKey) = accepted[1].SessionKeys.AppSKey
         /\ last.Op = "GetNwkSKeys"
              => Some(Deref(last.Resp).FNwkSIntKey) = accepted[1].SessionKeys.FNwkSIntKey

\* C6: the session a successful join installs, and the keys it returns, carry
\* a non-empty SessionKeyID.
C6_SessionKeyIDAssigned ==
    (LastAccepted /\ last.Store = "ok")
      => /\ Deref(registry.Session).SessionKeys.SessionKeyID # ""
         /\ Deref(last.Resp).SessionKeys.SessionKeyID # ""

\* C7 as stated: after every successful join the record's session holds the
\* session keys of the response.
C7_RecordHoldsResponseKeys ==
    LastAccepted
      => /\ ~IsNil(registry.Session)
         /\ Deref(registry.Session).SessionKeys = Deref(last.Resp).SessionKeys

\* C7 amended: after every successful join whose registry store succeeded the
\* record's session holds, envelope for envelope, the session keys of the
\* response.
C7_StoredRecordHoldsResponseKeys ==
    (LastAccepted /\ last.Store = "ok")
      => /\ ~IsNil(registry.Session)
         /\ Deref(registry.Session).SessionKeys = Deref(last.Resp).SessionKeys

\* C7 witness: a stored join of a device that already had a session.
C7_Witness ==
    /\ LastAccepted /\ last.Store = "ok"
    /\ ~IsNil(Deref(last.Pre).Session)
    /\ ~IsNil(Deref(last.Resp).SessionKeys.AppSKey)

\* C8: when every check and crypto step succeeded and Store failed, HandleJoin
\* returns the response and a nil error, and the record is as before.
C8_StoreFailureNotSurfaced ==
    (LastIsJoin /\ last.Store \in StoreOutcomes \ {"ok"})
      => /\ last.Err = NoError
         /\ ~IsNil(last.Resp)
         /\ registry = Deref(last.Pre)

\* C8 witness: a join answered although its store met a conflict.
C8_Witness ==
    /\ LastIsJoin /\ last.Store = "ConflictError"
    /\ ~IsNil(last.Resp)

\* C9: the request of a join that was answered but not stored, submitted
\* again right after it, is accepted again with the same JoinNonce, the same
\* session keys and the same Join-Accept.
C9_ReplayAfterFailedStore ==
    (/\ LastIsJoin /\ PreviousJoin >= 1
     /\ ~accepted[PreviousJoin].Stored
     /\ last.Call = Some(accepted[PreviousJoin].Call))
      => /\ LastAccepted
         /\ accepted[Len(accepted)].JoinNonce = accepted[PreviousJoin].JoinNonce
         /\ accepted[Len(accepted)].SessionKeys = accepted[PreviousJoin].SessionKeys
         /\ Deref(last.Resp).SessionKeys = accepted[PreviousJoin].SessionKeys

\* C9 witness: a 1.1 request accepted twice in a row, the first time unstored.
C9_Witness ==
    /\ LastAccepted /\ Len(accepted) = 2
    /\ ~accepted[1].Stored
    /\ accepted[1].Ver = MAC_V1_1
    /\ accepted[2].Call = accepted[1].Call

\* C10: a HandleJoin call that returns an error never calls Store and leaves
\* the record in the registry as it was.
C10_FailedJoinLeavesRecord ==
    [][(last'.Op = "HandleJoin" /\ last'.Err # NoError /\ last' # last)
         => (registry' = registry /\ last'.Store = "none")]_vars

\* C10 witness: a 1.1 request that passed the nonce check and failed the MIC
\* check, and a 1.0.x replay refused.
C10_Witness ==
    /\ LastIsJoin /\ last.Err = "MICCheckFailed"
    /\ LastCall.Req.SelectedMacVersion = MAC_V1_1
    /\ registry = Deref(last.Pre)

\* The request of the last HandleJoin call passes the checks made before the
\* registry lookup, and the lookup finds the device.
LastJoinFindsDevice ==
    /\ LastIsJoin
    /\ ValidateJoinRequest(LastCall.Req) = NoError
    /\ LET pld == Deref(Deref(GetPayload(LastCall.Req)).Payload)
       IN  ~IsNil(FindByIdentifiers(Deref(last.Pre), pld.DevEUI, Some(pld.JoinEUI)))

\* What the last HandleJoin call would have returned to the caller addr.
LastJoinErrorFrom(addr) ==
    HandleJoinResult(Deref(last.Pre), LastCall.Req, addr, LastCall.Fault).Err

\* C11: a HandleJoin call that finds the device and whose caller address is
\* not the device's network_server_address returns AddressMismatch (Network
\* Server) and no response, whatever the MIC, the DevNonce, the root keys,
\* the JoinEUI prefix match and the version compatibility of the request.
C11_CallerCheckedFirst ==
    (LastJoinFindsDevice /\ LastCall.Caller # Deref(last.Pre).NetworkServerAddress)
        => /\ last.Err = "AddressMismatch"
           /\ last.Cause = "Network Server"
           /\ IsNil(last.Resp)
           /\ registry = Deref(last.Pre)

\* A call refused for its caller that the Network Server would have had
\* refused for its MIC.
C11_Witness ==
    /\ LastJoinFindsDevice
    /\ LastCall.Caller # Deref(last.Pre).NetworkServerAddress
    /\ last.Err = "AddressMismatch"
    /\ LastJoinErrorFrom(Deref(last.Pre).NetworkServerAddress) = "MICCheckFailed"

LastIsKeyRequest == last.Op \in {"GetAppSKey", "GetNwkSKeys"}

\* The last key request names a device and a session, and the device exists.
LastKeyRequestFindsDevice ==
    /\ LastIsKeyRequest
    /\ ~IsZeroBytes(LastCall.Req.DevEUI)
    /\ LastCall.Req.SessionKeyID # ""
    /\ ~IsNil(FindByIdentifiers(registry, LastCall.Req.DevEUI, Nil))

\* The address the record registers for the caller of the last key request.
RegisteredCaller ==
    IF last.Op = "GetAppSKey" THEN registry.ApplicationServerAddress
    ELSE registry.NetworkServerAddress

\* The session of the record that carries the SessionKeyID id, if any.
SessionsWithID(id) ==
    { x \in {registry.Session, registry.SessionFallback} :
        ~IsNil(x) /\ Deref(x).SessionKeys.SessionKeyID = id }

\* C12: GetAppSKey returns a key only to the caller whose address is the
\* device's application_server_address and GetNwkSKeys only to the one at
\* its network_server_address; a request for an existing device from any
\* other address fails with AddressMismatch and returns no key, whatever
\* sessions the record holds.
C12_KeysBoundToCaller ==
    LastIsKeyRequest =>
        /\ ~IsNil(last.Resp) =>
              (LastKeyRequestFindsDevice /\ LastCall.Caller = RegisteredCaller)
        /\ (LastKeyRequestFindsDevice /\ LastCall.Caller # RegisteredCaller) =>
              (last.Err = "AddressMismatch" /\ IsNil(last.Resp))

\* C12 witness: the Network Server asks for the AppSKey of a session the
\* record holds complete, and is refused.
C12_Witness ==
    /\ last.Op = "GetAppSKey"
    /\ LastKeyRequestFindsDevice
    /\ LastCall.Caller = registry.NetworkServerAddress
    /\ LastCall.Caller # registry.ApplicationServerAddress
    /\ \E x \in SessionsWithID(LastCall.Req.SessionKeyID) :
          ~IsNil(Deref(x).SessionKeys.AppSKey)
    /\ ~IsNil(registry.Session)
    /\ last.Err = "AddressMismatch"

EnvelopeErrors ==
    {"AppSKeyEnvelopeNotFound", "NwkSEncKeyEnvelopeNotFound",
     "FNwkSIntKeyEnvelopeNotFound", "SNwkSIntKeyEnvelopeNotFound"}

\* The envelopes the last key request asks for, as the keys hold them.
RequestedEnvelopes(keys) ==
    IF last.Op = "GetAppSKey" THEN [AppSKey |-> keys.AppSKey]
    ELSE [NwkSEncKey |-> keys.NwkSEncKey, FNwkSIntKey |-> keys.FNwkSIntKey,
          SNwkSIntKey |-> keys.SNwkSIntKey]

\* The response of the last key request holds the envelopes of sess.
KeysFrom(sess) ==
    LET e == RequestedEnvelopes(sess.SessionKeys)
    IN  /\ last.Err = NoError
        /\ ~IsNil(last.Resp)
        /\ \A k \in DOMAIN e : ~IsNil(e[k]) /\ Deref(last.Resp)[k] = Deref(e[k])

\* The last key request was decided on sess: answered with its envelopes, or
\* refused for an envelope it lacks.
AnsweredFrom(sess) ==
    LET e == RequestedEnvelopes(sess.SessionKeys)
    IN  IF \A k \in DOMAIN e : ~IsNil(e[k]) THEN KeysFrom(sess)
        ELSE last.Err \in EnvelopeErrors /\ IsNil(last.Resp)

\* The last key request passed the checks made before the session is chosen.
LastKeyRequestSelects == LastKeyRequestFindsDevice /\ LastCall.Caller = RegisteredCaller

\* C13: a key request that reaches the session selection gets NoSession when
\* the record has no current session (a fallback session or not), is decided
\* on the current session when its id is the requested one, else on the
\* fallback session when that exists with the requested id, and otherwise
\* gets SessionKeyIDMismatch; returned keys come from a session with the
\* requested id.
C13_SessionSelection ==
    LastKeyRequestSelects =>
        LET id == LastCall.Req.SessionKeyID
            s == registry.Session
            f == registry.SessionFallback
            current == ~IsNil(s) /\ Deref(s).SessionKeys.SessionKeyID = id
            fallback == ~IsNil(f) /\ Deref(f).SessionKeys.SessionKeyID = id
        IN  /\ IsNil(s) => last.Err = "NoSession"
            /\ current => AnsweredFrom(Deref(s))
            /\ (~IsNil(s) /\ ~current /\ fallback) => AnsweredFrom(Deref(f))
            /\ (~IsNil(s) /\ ~current /\ ~fallback) => last.Err = "SessionKeyIDMismatch"
            /\ last.Err = NoError => \E x \in SessionsWithID(id) : KeysFrom(Deref(x))

\* C13 witness: network keys returned from the fallback session, which are
\* not those of the current session.
C13_Witness ==
    /\ last.Op = "GetNwkSKeys"
    /\ LastKeyRequestSelects
    /\ ~IsNil(registry.Session) /\ ~IsNil(registry.SessionFallback)
    /\ Deref(registry.Session).SessionKeys.SessionKeyID # LastCall.Req.SessionKeyID
    /\ KeysFrom(Deref(registry.SessionFallback))
    /\ ~KeysFrom(Deref(registry.Session))

\* The error each missing envelope is reported with.
EnvelopeNotFound ==
    [AppSKey |-> "AppSKeyEnvelopeNotFound", NwkSEncKey |-> "NwkSEncKeyEnvelopeNotFound",
     FNwkSIntKey |-> "FNwkSIntKeyEnvelopeNotFound", SNwkSIntKey |-> "SNwkSIntKeyEnvelopeNotFound"]

\* The sessions of the record the last key request is decided on.
SelectedSessions ==
    LET id == LastCall.Req.SessionKeyID
        s == registry.Session
    IN  IF IsNil(s) THEN {}
        ELSE IF Deref(s).SessionKeys.SessionKeyID = id THEN {s}
        ELSE SessionsWithID(id) \cap {registry.SessionFallback}

\* C14: a key request decided on a session succeeds only if the session
\* holds every envelope asked for (NwkSEncKey, FNwkSIntKey and SNwkSIntKey for
\* GetNwkSKeys, AppSKey for GetAppSKey); otherwise it fails with the
\* EnvelopeNotFound error of an envelope that is missing.
C14_MissingEnvelopeReported ==
    LastKeyRequestSelects =>
        \A x \in SelectedSessions :
            LET e == RequestedEnvelopes(Deref(x).SessionKeys)
                missing == { k \in DOMAIN e : IsNil(e[k]) }
            IN  IF missing = {} THEN KeysFrom(Deref(x))
                ELSE /\ IsNil(last.Resp)
                     /\ \E k \in missing : last.Err = EnvelopeNotFound[k]

\* C14 witness: GetNwkSKeys on a session that lacks the SNwkSIntKey envelope
\* only.
C14_Witness ==
    /\ last.Op = "GetNwkSKeys"
    /\ LastKeyRequestSelects
    /\ \E x \in SelectedSessions :
          /\ IsNil(Deref(x).SessionKeys.SNwkSIntKey)
          /\ ~IsNil(Deref(x).SessionKeys.FNwkSIntKey)
          /\ ~IsNil(Deref(x).SessionKeys.NwkSEncKey)
    /\ last.Err = "SNwkSIntKeyEnvelopeNotFound"

\* The join request payload of the last HandleJoin call.
LastJoinPayload == Deref(Deref(GetPayload(LastCall.Req)).Payload)

\* The JoinNonce the last HandleJoin call issued.
LastJoinNonce == JoinNonceOf(Deref(last.Pre).NextJoinNonce)

\* C15: after a successful 1.0, 1.0.1 or 1.0.2 join the session keys hold
\* DeriveLegacyNwkSKey(AppKey, JN, NetID, DevNonce) as FNwkSIntKey, SNwkSIntKey
\* and NwkSEncKey and DeriveLegacyAppSKey(AppKey, JN, NetID, DevNonce) as
\* AppSKey, so GetNwkSKeys finds the three network envelopes in the session.
C15_LegacyKeyIsAllNetworkKeys ==
    (LastAccepted /\ LastCall.Req.SelectedMacVersion \in LegacyVersions) =>
        LET appKey == AppKeyOf(Deref(last.Pre).RootKeys)
            nwkSKey == KeyEnvelope(DeriveLegacyNwkSKey(appKey, LastJoinNonce, LastCall.Req.NetID,
                                                       LastJoinPayload.DevNonce))
            appSKey == KeyEnvelope(DeriveLegacyAppSKey(appKey, LastJoinNonce, LastCall.Req.NetID,
                                                       LastJoinPayload.DevNonce))
            keys == Deref(last.Resp).SessionKeys
        IN  /\ keys.FNwkSIntKey = nwkSKey
            /\ keys.SNwkSIntKey = nwkSKey
            /\ keys.NwkSEncKey = nwkSKey
            /\ keys.AppSKey = appSKey

\* C16: the response of a successful 1.1 join holds FNwkSIntKey, SNwkSIntKey
\* and NwkSEncKey derived from NwkKey and AppSKey derived from AppKey, each
\* over the JoinNonce issued in this join, the JoinEUI and the DevNonce of
\* the request, every envelope with an empty kek_label.
C16_FourKeysOfV1_1 ==
    (LastAccepted /\ LastCall.Req.SelectedMacVersion = MAC_V1_1) =>
        LET nwkKey == NwkKeyOf(Deref(last.Pre).RootKeys)
            appKey == AppKeyOf(Deref(last.Pre).RootKeys)
            jn == LastJoinNonce
            joinEUI == LastJoinPayload.JoinEUI
            devNonce == LastJoinPayload.DevNonce
            keys == Deref(last.Resp).SessionKeys
            envelope(key) == Some([Key |-> Some(key), KEKLabel |-> ""])
        IN  /\ keys.FNwkSIntKey = envelope(DeriveFNwkSIntKey(nwkKey, jn, joinEUI, devNonce))
            /\ keys.SNwkSIntKey = envelope(DeriveSNwkSIntKey(nwkKey, jn, joinEUI, devNonce))
            /\ keys.NwkSEncKey = envelope(DeriveNwkSEncKey(nwkKey, jn, joinEUI, devNonce))
            /\ keys.AppSKey = envelope(DeriveAppSKey(appKey, jn, joinEUI, devNonce))

\* C16 witness: the second accepted join of a device, a 1.1 join, whose
\* JoinNonce is not the one of the first.
C16_Witness ==
    /\ LastAccepted /\ LastCall.Req.SelectedMacVersion = MAC_V1_1
    /\ Len(accepted) = 2 /\ accepted[1].Stored
    /\ accepted[2].JoinNonce # accepted[1].JoinNonce
    /\ \A k \in {"FNwkSIntKey", "SNwkSIntKey", "NwkSEncKey", "AppSKey"} :
          ~IsNil(Deref(last.Resp).SessionKeys[k])

\* The last HandleJoin call passes every check made before the DevNonce is
\* looked at: caller, JoinEUI prefix, version compatibility, AppKey.
LastJoinReachesNonceCheck ==
    /\ LastJoinFindsDevice
    /\ LET dev == Deref(last.Pre)
       IN  /\ LastCall.Caller = dev.NetworkServerAddress
           /\ \E i \in 1..Len(euiPrefixes) : Matches(euiPrefixes[i], LastJoinPayload.JoinEUI)
           /\ Compare(dev.LoRaWANVersion, LastCall.Req.SelectedMacVersion) # -1
           /\ ~IsNil(dev.RootKeys.AppKey)
           /\ ~IsNil(Deref(dev.RootKeys.AppKey).Key)
           /\ Deref(Deref(dev.RootKeys.AppKey).Key) # 0

\* The last HandleJoin call is a 1.1 join whose DevNonce is checked.
LastJoinChecksV1_1DevNonce ==
    /\ LastJoinReachesNonceCheck
    /\ LastCall.Req.SelectedMacVersion = MAC_V1_1
    /\ ~Deref(last.Pre).DisableJoinNonceCheck

\* C17: a 1.1 join on a device whose next_dev_nonce is 2^32 - 1 (nonce check
\* enabled) fails with DevNonceTooHigh, whatever the DevNonce of the request.
C17_ExhaustedDevNonceTooHigh ==
    (LastJoinChecksV1_1DevNonce /\ Deref(last.Pre).NextDevNonce = MaxUint32)
        => last.Err = "DevNonceTooHigh"

\* The DevNonce of the last HandleJoin call, as a number.
LastDevNonce == LittleEndianUint16(LastJoinPayload.DevNonce)

\* C18: after a successful, stored 1.1 join (nonce check enabled) that
\* accepted DevNonce dn, the record's next_dev_nonce is dn + 1 computed in 32
\* bits, hence greater than dn, for every dn in 0..65535.
C18_NextDevNonceIsSuccessor ==
    (LastAccepted /\ last.Store = "ok" /\ LastJoinChecksV1_1DevNonce) =>
        /\ registry.NextDevNonce = Uint32Inc(Uint32FromUint16(LastDevNonce))
        /\ Uint32Less(Uint32FromUint16(LastDevNonce), registry.NextDevNonce)

\* C19: a successful HandleJoin whose store succeeds leaves next_join_nonce
\* one above what it was, so next_join_nonce strictly increases along the
\* accepted joins of a device.
C19_NextJoinNonceIncreases ==
    (LastAccepted /\ last.Store = "ok") =>
        /\ registry.NextJoinNonce = Uint32Inc(Deref(last.Pre).NextJoinNonce)
        /\ Uint32Less(Deref(last.Pre).NextJoinNonce, registry.NextJoinNonce)

\* A 3-byte little-endian JoinNonce as <<high byte, low 16 bits>>.
JoinNonceValue(jn) == <<jn[3], jn[2] * 256 + jn[1]>>

\* C20: the JoinNonce of a Join-Accept is the low 24 bits, little-endian, of
\* the next_join_nonce read from the record, and the JoinNonces issued to a
\* device by successive stored joins increase, none being issued twice.
C20_JoinNoncesIncrease ==
    /\ \A i \in 1..Len(accepted) :
          LET n == accepted[i].Pre.NextJoinNonce
          IN  accepted[i].JoinNonce = <<n[2] % 256, n[2] \div 256, n[1] % 256>>
    /\ \A i \in 1..Len(accepted) : \A j \in (i+1)..Len(accepted) :
          (\A k \in i..(j-1) : accepted[k].Stored) =>
              Uint32Less(JoinNonceValue(accepted[i].JoinNonce),
                         JoinNonceValue(accepted[j].JoinNonce))

ReplayErrors == {"DevNonceTooSmall", "DevNonceTooHigh", "DevNonceReused"}

\* What the last HandleJoin call returns on the record it read with
\* disable_join_nonce_check set to flag.
LastJoinResultWithCheck(flag) ==
    LET r == HandleJoinResult([Deref(last.Pre) EXCEPT !.DisableJoinNonceCheck = flag],
                              LastCall.Req, LastCall.Caller, LastCall.Fault)
    IN  [Err |-> r.Err, Cause |-> r.Cause, Resp |-> r.Resp]

\* C21: on a device with disable_join_nonce_check true a HandleJoin call never
\* fails a replay check, and returns what it returns with the flag false
\* (the same error, or the same response) unless that is a replay error.
C21_OnlyReplayChecksBypassed ==
    (LastIsJoin /\ Deref(last.Pre).DisableJoinNonceCheck) =>
        LET checked == LastJoinResultWithCheck(FALSE)
        IN  /\ last.Err \notin ReplayErrors
            /\ checked.Err \notin ReplayErrors =>
                  (last.Err = checked.Err /\ last.Cause = checked.Cause
                                          /\ last.Resp = checked.Resp)

\* C21 witness: a 1.1 join accepted with a DevNonce the enabled check refuses
\* as too small.
C21_Witness ==
    /\ LastAccepted
    /\ Deref(last.Pre).DisableJoinNonceCheck
    /\ LastCall.Req.SelectedMacVersion = MAC_V1_1
    /\ LastJoinResultWithCheck(FALSE).Err = "DevNonceTooSmall"

\* The last HandleJoin call found the device and came from its Network
\* Server.
LastJoinReachesRouting ==
    LastJoinFindsDevice /\ LastCall.Caller = Deref(last.Pre).NetworkServerAddress

\* Some configured prefix matches the JoinEUI of the last HandleJoin call.
LastJoinEUIMatches ==
    \E i \in 1..Len(euiPrefixes) : Matches(euiPrefixes[i], LastJoinPayload.JoinEUI)

\* C22: when no configured prefix matches the JoinEUI of the request,
\* HandleJoin fails with UnknownAppEUI if the registered version is 1.0 and
\* with ForwardJoinRequest for every other registered version; when a prefix
\* matches it returns neither.
C22_JoinEUIRouting ==
    LastJoinReachesRouting =>
        IF LastJoinEUIMatches
        THEN last.Err \notin {"UnknownAppEUI", "ForwardJoinRequest"}
        ELSE /\ IsNil(last.Resp)
             /\ last.Err = IF Deref(last.Pre).LoRaWANVersion = MAC_V1_0
                           THEN "UnknownAppEUI" ELSE "ForwardJoinRequest"

\* C22 witness: a 1.1 device and a valid 1.1 request whose JoinEUI no prefix
\* matches.
C22_Witness ==
    /\ LastJoinReachesRouting /\ ~LastJoinEUIMatches
    /\ Deref(last.Pre).LoRaWANVersion = MAC_V1_1
    /\ LastCall.Req.SelectedMacVersion = MAC_V1_1
    /\ last.Err = "ForwardJoinRequest"

\* The MAC versions, oldest first.
VersionOrder == <<MAC_V1_0, MAC_V1_0_1, MAC_V1_0_2, MAC_V1_0_3, MAC_V1_1>>

\* Version v is older than version o.
IsOlderVersion(v, o) ==
    \E i, j \in 1..Len(VersionOrder) : i < j /\ VersionOrder[i] = v /\ VersionOrder[j] = o

\* C23: a join is accepted only if the registered lorawan_version is not
\* older than the selected version; a HandleJoin call that passes the JoinEUI
\* routing on a device registered with an older version fails with
\* MACVersionMismatch, with no response and no session keys in the record.
C23_RegisteredVersionNotOlder ==
    /\ LastAccepted =>
          ~IsOlderVersion(Deref(last.Pre).LoRaWANVersion, LastCall.Req.SelectedMacVersion)
    /\ (/\ LastJoinReachesRouting /\ LastJoinEUIMatches
        /\ IsOlderVersion(Deref(last.Pre).LoRaWANVersion, LastCall.Req.SelectedMacVersion))
          => /\ last.Err = "MACVersionMismatch"
             /\ IsNil(last.Resp)
             /\ registry = Deref(last.Pre)

\* C23 witness: a valid 1.1 request for a device registered as 1.0.3, whose
\* root keys are both present.
C23_Witness ==
    /\ LastJoinReachesRouting /\ LastJoinEUIMatches
    /\ Deref(last.Pre).LoRaWANVersion = MAC_V1_0_3
    /\ LastCall.Req.SelectedMacVersion = MAC_V1_1
    /\ ~IsNil(Deref(last.Pre).RootKeys.NwkKey)
    /\ last.Err = "MACVersionMismatch"

\* A root key envelope that is absent, or whose key is nil or all-zero.
KeyUnusable(ke) == IsNil(ke) \/ IsNil(Deref(ke).Key) \/ Deref(Deref(ke).Key) = 0

\* The last HandleJoin call passed the caller check, the JoinEUI routing and
\* the version comparison: the root keys of the record are read next.
LastJoinReadsRootKeys ==
    /\ LastJoinReachesRouting /\ LastJoinEUIMatches
    /\ ~IsOlderVersion(Deref(last.Pre).LoRaWANVersion, LastCall.Req.SelectedMacVersion)

\* C24: a HandleJoin call that reads the root keys fails with CorruptRegistry
\* (not DeviceNotFound) when the AppKey is absent, nil or zero, whatever the
\* selected version; with the AppKey usable, a 1.1 join that passes the
\* replay check fails with CorruptRegistry when the NwkKey is absent, nil or
\* zero, and a 1.0, 1.0.1 or 1.0.2 join never fails with CorruptRegistry.
C24_RootKeyIntegrity ==
    LastJoinReadsRootKeys =>
        LET keys == Deref(last.Pre).RootKeys
            ver == LastCall.Req.SelectedMacVersion
        IN  /\ KeyUnusable(keys.AppKey) =>
                  (last.Err = "CorruptRegistry" /\ IsNil(last.Resp)
                     /\ last.Cause \in {"AppKeyEnvelopeNotFound", "AppKeyNotFound"})
            /\ (~KeyUnusable(keys.AppKey) /\ ver = MAC_V1_1 /\ KeyUnusable(keys.NwkKey)
                   /\ last.Err \notin ReplayErrors) =>
                  (last.Err = "CorruptRegistry" /\ IsNil(last.Resp)
                     /\ last.Cause \in {"NwkKeyEnvelopeNotFound", "NwkKeyNotFound"})
            /\ (~KeyUnusable(keys.AppKey) /\ ver \in LegacyVersions) =>
                  last.Err # "CorruptRegistry"

\* C24 witness: a 1.1 join refused for an all-zero NwkKey next to a usable
\* AppKey.
C24_Witness ==
    /\ LastJoinReadsRootKeys
    /\ LastCall.Req.SelectedMacVersion = MAC_V1_1
    /\ ~KeyUnusable(Deref(last.Pre).RootKeys.AppKey)
    /\ ~IsNil(Deref(last.Pre).RootKeys.NwkKey)
    /\ ~IsNil(Deref(Deref(last.Pre).RootKeys.NwkKey).Key)
    /\ KeyUnusable(Deref(last.Pre).RootKeys.NwkKey)
    /\ last.Err = "CorruptRegistry"

\* The errors of the input validation, in the order of the steps.
ValidationErrors ==
    << "UnsupportedLoRaWANMACVersion", "MissingDevAddr", "MissingPayload",
       "UnmarshalPayloadFailed", "UnsupportedLoRaWANVersion", "WrongPayloadType",
       "MissingJoinRequest", "MissingDevEUI", "MissingJoinEUI" >>

\* Request req violates the condition of validation step k.
ViolatesStep(req, k) ==
    LET structured == ~IsNil(req.Payload.Payload)
        parsed == IF structured THEN Some(req.Payload)
                  ELSE IF IsNil(req.RawPayload) THEN Nil
                  ELSE UnmarshalLoRaWAN(Deref(req.RawPayload))
        pld == Deref(Deref(parsed).Payload)
    IN  CASE k = 1 -> req.SelectedMacVersion \notin {MAC_V1_0, MAC_V1_0_1, MAC_V1_0_2, MAC_V1_1}
          [] k = 2 -> IsNil(req.DevAddr)
          [] k = 3 -> ~structured /\ IsNil(req.RawPayload)
          [] k = 4 -> ~structured /\ ~IsNil(req.RawPayload) /\ IsNil(parsed)
          [] k = 5 -> ~IsNil(parsed) /\ Deref(parsed).Major # Major_LORAWAN_R1
          [] k = 6 -> ~IsNil(parsed) /\ Deref(parsed).MType # MType_JOIN_REQUEST
          [] k = 7 -> ~IsNil(parsed) /\ pld.Kind # "JoinRequestPayload"
          [] k = 8 -> ~IsNil(parsed) /\ pld.Kind = "JoinRequestPayload" /\ IsZeroBytes(pld.DevEUI)
          [] k = 9 -> ~IsNil(parsed) /\ pld.Kind = "JoinRequestPayload" /\ IsZeroBytes(pld.JoinEUI)

ViolatedSteps(req) == { k \in 1..Len(ValidationErrors) : ViolatesStep(req, k) }

\* C25: a HandleJoin request that violates input conditions fails with the
\* error of the earliest violated step in the order version gate, DevAddr,
\* payload present, payload parsed, Major, MType, join-request payload,
\* DevEUI, JoinEUI, whatever the registry holds and without a store; a
\* request that violates none gets none of these errors.
C25_ValidationOrder ==
    LastIsJoin =>
        LET violated == ViolatedSteps(LastCall.Req)
        IN  IF violated = {}
            THEN \A k \in 1..Len(ValidationErrors) : last.Err # ValidationErrors[k]
            ELSE /\ \E k \in violated : /\ \A j \in violated : k <= j
                                        /\ last.Err = ValidationErrors[k]
                 /\ IsNil(last.Resp)
                 /\ last.Store = "none"
                 /\ registry = Deref(last.Pre)

\* C25 witness: a request with an unsupported version, no DevAddr, a wrong
\* Major and MType and a DevEUI the registry does not hold.
C25_Witness ==
    /\ LastIsJoin
    /\ {1, 2, 5, 6} \subseteq ViolatedSteps(LastCall.Req)
    /\ LastJoinPayload.DevEUI = DevEUI_B
    /\ last.Err = "UnsupportedLoRaWANMACVersion"

\* C26: GetAppSKey and GetNwkSKeys answer a zero DevEUI with MissingDevEUI,
\* and a non-zero DevEUI with an empty SessionKeyID with MissingSessionKeyID,
\* whether the registry holds the device or not and whoever the caller is;
\* a request with both fields set gets neither error.
C26_KeyRequestValidatedFirst ==
    LastIsKeyRequest =>
        LET req == LastCall.Req
        IN  /\ IsZeroBytes(req.DevEUI) => last.Err = "MissingDevEUI"
            /\ (~IsZeroBytes(req.DevEUI) /\ req.SessionKeyID = "") =>
                  last.Err = "MissingSessionKeyID"
            /\ (~IsZeroBytes(req.DevEUI) /\ req.SessionKeyID # "") =>
                  last.Err \notin {"MissingDevEUI", "MissingSessionKeyID"}
            /\ last.Err \in {"MissingDevEUI", "MissingSessionKeyID"} => IsNil(last.Resp)

\* C26 witness: GetNwkSKeys with an empty SessionKeyID for a device the
\* registry does not hold, from a caller that is no Network Server.
C26_Witness ==
    /\ last.Op = "GetNwkSKeys"
    /\ LastCall.Req.SessionKeyID = ""
    /\ IsNil(FindByIdentifiers(registry, LastCall.Req.DevEUI, Nil))
    /\ LastCall.Caller # registry.NetworkServerAddress
    /\ last.Err = "MissingSessionKeyID"

\* The fields of a device record that are provisioned, not join state.
ProvisionedFields ==
    {"JoinEUI", "DevEUI", "LoRaWANVersion", "NetworkServerAddress",
     "ApplicationServerAddress", "RootKeys", "DisableJoinNonceCheck"}

\* C27: no HandleJoin, GetAppSKey or GetNwkSKeys call changes the
\* identifiers, lorawan_version, network_server_address,
\* application_server_address, root keys or disable_join_nonce_check of the
\* device record; a call changes join-state fields only.
C27_ProvisionedFieldsKept ==
    [][/\ DOMAIN registry' = DOMAIN registry
       /\ \A f \in ProvisionedFields : registry'[f] = registry[f]]_vars

\* C27 witness: a stored 1.1 join that changed next_join_nonce,
\* next_dev_nonce, used_dev_nonces and session.
C27_Witness ==
    /\ LastAccepted /\ last.Store = "ok"
    /\ registry.NextJoinNonce # Deref(last.Pre).NextJoinNonce
    /\ registry.NextDevNonce # Deref(last.Pre).NextDevNonce
    /\ registry.UsedDevNonces # Deref(last.Pre).UsedDevNonces
    /\ registry.Session # Deref(last.Pre).Session
    /\ \A f \in ProvisionedFields : registry[f] = Deref(last.Pre)[f]

\* The steps of one HandleJoin invocation: the lookup, which ends it or finds
\* the device, and the rest of the handler with its store.
InvocationSteps == { <<"idle", "found">>, <<"idle", "done">>, <<"found", "done">> }

\* C28: a HandleJoin invocation makes one registry lookup and then at most
\* one store before it returns: it never goes back to the lookup, a store
\* happens only on its last step, and a store conflict ends it with the
\* record unchanged (no attempt follows a conflict).
C28_BoundedRegistryAccesses ==
    [][/\ \A w \in Workers :
            workers'[w].pc # workers[w].pc =>
                <<workers[w].pc, workers'[w].pc>> \in InvocationSteps
       /\ registry' # registry =>
            \E w \in Workers : /\ workers[w].pc = "found" /\ workers'[w].pc = "done"
                                /\ last'.Store = "ok"
       /\ (last' # last /\ last'.Store \in {"ConflictError", "BackendError"}) =>
            /\ registry' = registry
            /\ \E w \in Workers : /\ workers[w].pc = "found" /\ workers'[w].pc = "done"
                                   /\ last'.Call = workers[w].Call]_vars

\* C28 witness: both invocations returned, the second after a store conflict.
C28_Witness ==
    /\ \A w \in Workers : workers[w].pc = "done"
    /\ overlap
    /\ last.Op = "HandleJoin" /\ last.Store = "ConflictError"
    /\ Len(accepted) = 2 /\ accepted[1].Stored

LastIsRxParamSetupAns == last.Op = "handleRxParamSetupAns"

\* The pending commands of device dev that are RxParamSetupReq.
PendingRxParamSetup(dev) ==
    { i \in 1..Len(dev.PendingMACCommands) : dev.PendingMACCommands[i].CID = "RX_PARAM_SETUP" }

\* C29: handleRxParamSetupAns with an answer and a pending RxParamSetupReq
\* returns no error and removes that request (the oldest one, leaving the
\* other pending commands) in every case; MACState takes the request's
\* Rx1DataRateOffset, Rx2DataRateIndex and Rx2Frequency when the three acks
\* are true, and is left as it was when any ack is false.
C29_RxParamSetupAllOrNothing ==
    (/\ LastIsRxParamSetupAns
     /\ ~IsNil(LastCall.Payload)
     /\ PendingRxParamSetup(Deref(last.Pre)) # {}) =>
        LET pre == Deref(last.Pre)
            ans == Deref(LastCall.Payload)
            i == CHOOSE k \in PendingRxParamSetup(pre) : \A j \in PendingRxParamSetup(pre) : k <= j
            req == pre.PendingMACCommands[i]
        IN  /\ last.Err = NoError
            /\ Len(registry.PendingMACCommands) = Len(pre.PendingMACCommands) - 1
            /\ \A k \in 1..Len(registry.PendingMACCommands) :
                  registry.PendingMACCommands[k] =
                      pre.PendingMACCommands[IF k < i THEN k ELSE k + 1]
            /\ IF ans.Rx1DataRateOffsetAck /\ ans.Rx2DataRateIndexAck /\ ans.Rx2FrequencyAck
               THEN /\ registry.MACState.Rx1DataRateOffset = req.Rx1DataRateOffset
                    /\ registry.MACState.Rx2DataRateIndex = req.Rx2DataRateIndex
                    /\ registry.MACState.Rx2Frequency = req.Rx2Frequency
               ELSE registry.MACState = pre.MACState

\* C29 witness: two of three acks on a device whose MACState differs from
\* the request in each parameter.
C29_Witness ==
    /\ LastIsRxParamSetupAns /\ last.Err = NoError
    /\ ~IsNil(LastCall.Payload)
    /\ Deref(LastCall.Payload) = RxParamSetupAns(TRUE, TRUE, FALSE)
    /\ Deref(last.Pre).PendingMACCommands = <<RxParamSetupReq(42, 43, 44)>>
    /\ registry.PendingMACCommands = <<>>
    /\ registry.MACState = [Rx1DataRateOffset |-> 99, Rx2DataRateIndex |-> 0, Rx2Frequency |-> 99]

\* C30: handleRxParamSetupAns returns MissingPayload for a nil answer and
\* MACRequestNotFound for an answer when no RxParamSetupReq is pending, and
\* in both cases leaves MACState and PendingMACCommands as they were.
C30_RxParamSetupErrors ==
    LastIsRxParamSetupAns =>
        /\ IsNil(LastCall.Payload) =>
              (last.Err = "MissingPayload" /\ registry = Deref(last.Pre))
        /\ (~IsNil(LastCall.Payload) /\ PendingRxParamSetup(Deref(last.Pre)) = {}) =>
              (last.Err = "MACRequestNotFound" /\ registry = Deref(last.Pre))
        /\ last.Err # NoError => registry = Deref(last.Pre)

\* C30 witness: a nil answer for a device with a pending RxParamSetupReq.
C30_Witness ==
    /\ LastIsRxParamSetupAns
    /\ IsNil(LastCall.Payload)
    /\ PendingRxParamSetup(registry) # {}
    /\ last.Err = "MissingPayload"

\* C33: no HandleJoin call ends in the panic of a version switch: a selected
\* version outside 1.0, 1.0.1, 1.0.2 and 1.1 is answered with
\* UnsupportedLoRaWANMACVersion, whatever the rest of the request and the
\* device record are.
C33_VersionSwitchesTotal ==
    LastIsJoin =>
        /\ last.Err # Panic
        /\ LastCall.Req.SelectedMacVersion \notin {MAC_V1_0, MAC_V1_0_1, MAC_V1_0_2, MAC_V1_1}
              => last.Err = "UnsupportedLoRaWANMACVersion"

\* C33 witness: a 1.0.3 request that passes every other check of the
\* request, for a registered 1.1 device of the calling Network Server.
C33_Witness ==
    /\ LastIsJoin
    /\ LastCall.Req.SelectedMacVersion = MAC_V1_0_3
    /\ ValidateJoinRequest([LastCall.Req EXCEPT !.SelectedMacVersion = MAC_V1_1]) = NoError
    /\ HandleJoinResult(Deref(last.Pre),
                        [LastCall.Req EXCEPT !.SelectedMacVersion = MAC_V1_0_2],
                        LastCall.Caller, LastCall.Fault).Err = NoError
    /\ last.Err = "UnsupportedLoRaWANMACVersion"

\* C31: a successful, stored join with selected version 1.1 leaves
\* used_dev_nonces as it was; a join with selected version 1.0, 1.0.1 or
\* 1.0.2 appends its DevNonce to it.
C31_OnlyLegacyJoinsAppendDevNonce ==
    (LastAccepted /\ last.Store = "ok") =>
        IF LastCall.Req.SelectedMacVersion = MAC_V1_1
        THEN registry.UsedDevNonces = Deref(last.Pre).UsedDevNonces
        ELSE registry.UsedDevNonces =
                 Append(Deref(last.Pre).UsedDevNonces, Uint32FromUint16(LastDevNonce))

\* The k-th of the checks HandleJoin makes with the device record fails for
\* the last call, taken by itself: 1 the device is registered, 2 the caller
\* is its Network Server, 3 the JoinEUI has a configured prefix, 4 the
\* registered version is not older, 5 the AppKey is usable, 6 the DevNonce
\* is fresh, 7 the NwkKey is usable (1.1), 8 the MIC verifies.
LateCheckFails(k) ==
    LET dev == Deref(last.Pre)
        req == LastCall.Req
        ver == req.SelectedMacVersion
        pld == LastJoinPayload
        dn == LittleEndianUint16(pld.DevNonce)
        found == dev.DevEUI = pld.DevEUI /\ dev.JoinEUI = pld.JoinEUI
        ke == IF ver = MAC_V1_1 THEN dev.RootKeys.NwkKey ELSE dev.RootKeys.AppKey
    IN  CASE k = 1 -> ~found
          [] k = 2 -> found /\ LastCall.Caller # dev.NetworkServerAddress
          [] k = 3 -> found /\ ~\E i \in 1..Len(euiPrefixes) : Matches(euiPrefixes[i], pld.JoinEUI)
          [] k = 4 -> found /\ IsOlderVersion(dev.LoRaWANVersion, ver)
          [] k = 5 -> found /\ KeyUnusable(dev.RootKeys.AppKey)
          [] k = 6 -> /\ found
                      /\ ~dev.DisableJoinNonceCheck
                      /\ IF ver = MAC_V1_1
                         THEN \/ Uint32Less(Uint32FromUint16(dn), dev.NextDevNonce)
                              \/ dev.NextDevNonce = MaxUint32
                         ELSE \E i \in 1..Len(dev.UsedDevNonces) :
                                 Uint16FromUint32(dev.UsedDevNonces[i]) = dn
          [] k = 7 -> found /\ ver = MAC_V1_1 /\ KeyUnusable(dev.RootKeys.NwkKey)
          [] k = 8 -> /\ found
                      /\ ~KeyUnusable(ke)
                      /\ checkMIC(Deref(Deref(ke).Key), RawPayloadOf(req), LastCall.Fault) # NoError

\* The errors, and the causes, of the k-th check.
LateCheckErrors ==
    << {"DeviceNotFound"}, {"AddressMismatch"}, {"UnknownAppEUI", "ForwardJoinRequest"},
       {"MACVersionMismatch"}, {"CorruptRegistry"}, ReplayErrors, {"CorruptRegistry"},
       {"MICCheckFailed"} >>

LateCheckCauses ==
    << {""}, {"Network Server"}, {"", "DeviceNotFound"}, {""},
       {"AppKeyEnvelopeNotFound", "AppKeyNotFound"}, {""},
       {"NwkKeyEnvelopeNotFound", "NwkKeyNotFound"},
       {"RawPayloadLength", "MICComputeFailed", "MICMismatch"} >>

FailedLateChecks == { k \in 1..Len(LateCheckErrors) : LateCheckFails(k) }

\* C32: a request that passed the checks made on the request alone gets the
\* error of the earliest failing check in the order DeviceNotFound,
\* AddressMismatch, UnknownAppEUI/ForwardJoinRequest, MACVersionMismatch,
\* CorruptRegistry (AppKey), the DevNonce errors, CorruptRegistry (NwkKey),
\* MICCheckFailed, and none of these errors when no check fails.
C32_LateCheckOrder ==
    (LastIsJoin /\ ValidateJoinRequest(LastCall.Req) = NoError) =>
        IF FailedLateChecks = {}
        THEN \A k \in 1..Len(LateCheckErrors) : last.Err \notin LateCheckErrors[k]
        ELSE LET k == CHOOSE i \in FailedLateChecks : \A j \in FailedLateChecks : i <= j
             IN  last.Err \in LateCheckErrors[k] /\ last.Cause \in LateCheckCauses[k]

\* C32 witness: a DevNonce seen before, sent again with a MIC that does not
\* verify, is answered with the replay error.
C32_Witness ==
    /\ LastIsJoin /\ ValidateJoinRequest(LastCall.Req) = NoError
    /\ {6, 8} \subseteq FailedLateChecks
    /\ \A k \in FailedLateChecks : k >= 6
    /\ last.Err \in ReplayErrors

\* The payload the last join is to be read from: the structured one when
\* the request has one, else the parsed raw bytes.
InterpretedMessage ==
    IF IsNil(LastCall.Req.Payload.Payload)
    THEN Deref(UnmarshalLoRaWAN(Deref(LastCall.Req.RawPayload)))
    ELSE LastCall.Req.Payload

\* The bytes the MIC of the last join is to be verified over: the raw ones
\* when the request has them, else the serialization of the structured
\* payload.
VerifiedBytes ==
    IF IsNil(LastCall.Req.RawPayload)
    THEN MarshalLoRaWAN(LastCall.Req.Payload)
    ELSE Deref(LastCall.Req.RawPayload)

\* The root key the MIC of the last join is computed with.
LastMICKey ==
    LET keys == Deref(last.Pre).RootKeys
    IN  Deref(Deref(IF LastCall.Req.SelectedMacVersion = MAC_V1_1
                    THEN keys.NwkKey ELSE keys.AppKey).Key)

LastHasBothPayloads ==
    ~IsNil(LastCall.Req.Payload.Payload) /\ ~IsNil(LastCall.Req.RawPayload)

\* C34: a request is read (MHDR, JoinEUI, DevEUI, DevNonce) from its
\* structured payload when it has one, and from the parsed raw bytes
\* otherwise: raw bytes next to a structured payload are not parsed. The MIC
\* is verified over the raw bytes when the request has them, and over the
\* serialization of the structured payload otherwise.
C34_StructuredReadRawVerified ==
    LastIsJoin =>
        /\ last.Err = "UnmarshalPayloadFailed" => IsNil(LastCall.Req.Payload.Payload)
        /\ last.Err = "MICCheckFailed" =>
              checkMIC(LastMICKey, VerifiedBytes, LastCall.Fault) # NoError
        /\ LastAccepted =>
              LET pld == Deref(InterpretedMessage.Payload)
                  pre == Deref(last.Pre)
                  resp == Deref(last.Resp)
              IN  /\ checkMIC(LastMICKey, VerifiedBytes, LastCall.Fault) = NoError
                  /\ InterpretedMessage.MType = MType_JOIN_REQUEST
                  /\ resp.RawPayload[1] = MHDRByte([MType |-> MType_JOIN_ACCEPT,
                                                    Major |-> InterpretedMessage.Major])
                  /\ pre.DevEUI = pld.DevEUI /\ pre.JoinEUI = pld.JoinEUI
                  /\ resp.SessionKeys.AppSKey \in
                        { KeyEnvelope(DeriveAppSKey(AppKeyOf(pre.RootKeys), LastJoinNonce,
                                                    pld.JoinEUI, pld.DevNonce)),
                          KeyEnvelope(DeriveLegacyAppSKey(AppKeyOf(pre.RootKeys), LastJoinNonce,
                                                          LastCall.Req.NetID, pld.DevNonce)) }
                  /\ last.Store = "ok" =>
                        registry.UsedDevNonces[Len(registry.UsedDevNonces)] =
                            Uint32FromUint16(LittleEndianUint16(pld.DevNonce))

\* C34 witness: a join accepted on a structured payload with DevNonce 9,
\* whose raw bytes are a signed Join-Request with DevNonce 0.
C34_Witness ==
    /\ LastAccepted /\ last.Store = "ok"
    /\ LastHasBothPayloads
    /\ Deref(LastCall.Req.Payload.Payload).DevNonce = <<9, 0>>
    /\ Deref(UnmarshalLoRaWAN(Deref(LastCall.Req.RawPayload))).Payload # LastCall.Req.Payload.Payload
    /\ registry.UsedDevNonces[Len(registry.UsedDevNonces)] = <<0, 9>>

\* The last join passed every check made before the MIC is verified.
LastJoinReachesMIC ==
    /\ LastIsJoin
    /\ ValidateJoinRequest(LastCall.Req) = NoError
    /\ FailedLateChecks \subseteq {Len(LateCheckErrors)}

\* The MIC bytes of VerifiedBytes that differ from the MIC computed over the
\* bytes before them.
DifferingMICBytes ==
    LET computed == ComputeJoinRequestMIC(LastMICKey, SubSeq(VerifiedBytes, 1, MICOffset))
    IN  { i \in 1..Len(computed) : computed[i] # VerifiedBytes[MICOffset + i] }

\* C35: a join that reaches the MIC step with bytes that are not 23 long
\* fails with MICCheckFailed, caused by the length; with 23 bytes, the MIC
\* computed over bytes 0..18 is compared with bytes 19..22 and any differing
\* byte gives MICCheckFailed; an accepted join verified 23 bytes whose last
\* four are that MIC.
C35_MICOverRawBytes ==
    /\ LastJoinReachesMIC =>
          IF Len(VerifiedBytes) # RawJoinRequestLen
          THEN last.Err = "MICCheckFailed" /\ last.Cause = "RawPayloadLength"
          ELSE IF LastCall.Fault = "ComputeJoinRequestMIC"
          THEN last.Err = "MICCheckFailed" /\ last.Cause = "MICComputeFailed"
          ELSE IF DifferingMICBytes # {}
          THEN last.Err = "MICCheckFailed" /\ last.Cause = "MICMismatch"
          ELSE last.Err # "MICCheckFailed"
    /\ LastAccepted =>
          /\ Len(VerifiedBytes) = RawJoinRequestLen
          /\ DifferingMICBytes = {}
    /\ (LastIsJoin /\ last.Err # NoError) => accepted = <<>> /\ registry = Deref(last.Pre)

\* C35 witness: only the last byte of the MIC differs.
C35_Witness ==
    /\ LastJoinReachesMIC
    /\ Len(VerifiedBytes) = RawJoinRequestLen
    /\ DifferingMICBytes = {RawJoinRequestLen - MICOffset}
    /\ last.Err = "MICCheckFailed" /\ last.Cause = "MICMismatch"

\* C36: the raw payload of a successful JoinResponse is 17 bytes long when
\* the request has no CFList and 33 bytes when it has one, in the 1.1 and in
\* the 1.0.x branch: the MHDR byte, then the encryption of the 12 or 28
\* bytes of the Join-Accept payload followed by the 4 bytes of its MIC.
C36_JoinAcceptLength ==
    LastAccepted =>
        LET raw == Deref(last.Resp).RawPayload
            plain == JoinAcceptBytes(LastCall.Req, InterpretedMessage, LastJoinNonce)
        IN  /\ Len(raw) = IF IsNil(LastCall.Req.CFList) THEN JoinAcceptLen
                          ELSE JoinAcceptCFListLen
            /\ raw[1] = MHDRByte([MType |-> MType_JOIN_ACCEPT, Major |-> Major_LORAWAN_R1])
            /\ Len(plain) - 1 = IF IsNil(LastCall.Req.CFList) THEN 12 ELSE 28
            /\ \E mic \in {ComputeLegacyJoinAcceptMIC(LastMICKey, plain),
                            ComputeJoinAcceptMIC(DeriveJSIntKey(LastMICKey, LastJoinPayload.DevEUI),
                                                 255, LastJoinPayload.JoinEUI,
                                                 LastJoinPayload.DevNonce, plain)} :
                  /\ Len(mic) = 4
                  /\ Some(Tail(raw)) = EncryptJoinAccept(LastMICKey, Tail(plain) \o mic)

\* C36 witness: a 1.1 join with a CFList, answered with 33 bytes.
C36_Witness ==
    /\ LastAccepted
    /\ LastCall.Req.SelectedMacVersion = MAC_V1_1
    /\ ~IsNil(LastCall.Req.CFList)
    /\ Len(Deref(last.Resp).RawPayload) = JoinAcceptCFListLen

\* The joins i < j were accepted and stored for a device registered as 1.1
\* with the nonce check enabled.
StoredJoinsOfV1_1Device(i, j) ==
    /\ i < j
    /\ accepted[i].Stored /\ accepted[j].Stored
    /\ \A k \in {i, j} : /\ accepted[k].Pre.LoRaWANVersion = MAC_V1_1
                          /\ ~accepted[k].Pre.DisableJoinNonceCheck

\* C37: on a device registered as 1.1 (nonce check enabled, every store
\* succeeding), a DevNonce accepted by a join of selected version 1.0.x is
\* not accepted by a later join of selected version 1.1, and the other way
\* round.
C37_NoDevNonceAcceptedAcrossVersions ==
    \A i, j \in 1..Len(accepted) :
        (/\ StoredJoinsOfV1_1Device(i, j)
         /\ \/ accepted[i].Ver \in LegacyVersions /\ accepted[j].Ver = MAC_V1_1
            \/ accepted[i].Ver = MAC_V1_1 /\ accepted[j].Ver \in LegacyVersions)
        => accepted[i].DevNonce # accepted[j].DevNonce

\* The call before the last one was a 1.1 join whose DevNonce passed the
\* nonce check and that was refused afterwards, with the error err.
RefusedAfterNonceCheck(err) ==
    /\ last.Before.Op = "HandleJoin"
    /\ last.Before.Err = err
    /\ Deref(last.Before.Call).Req.SelectedMacVersion = MAC_V1_1
    /\ ~Uint32Less(Uint32FromUint16(LittleEndianUint16(
            Deref(Deref(GetPayload(Deref(last.Before.Call).Req)).Payload).DevNonce)),
                   Deref(last.Before.Pre).NextDevNonce)

\* The DevNonce of the call before the last one.
DevNonceBefore ==
    LittleEndianUint16(Deref(Deref(GetPayload(Deref(last.Before.Call).Req)).Payload).DevNonce)

\* The last call is a 1.1 join signed with the NwkKey of the device.
LastJoinSignedV1_1 ==
    /\ LastIsJoin
    /\ LastCall.Req.SelectedMacVersion = MAC_V1_1
    /\ ~KeyUnusable(Deref(last.Pre).RootKeys.NwkKey)
    /\ Len(VerifiedBytes) = RawJoinRequestLen
    /\ DifferingMICBytes = {}

\* C38: a 1.1 join whose DevNonce passes the nonce check and which is then
\* refused for its MIC or for a missing NwkKey leaves the record as it was,
\* next_dev_nonce included; after a refusal for the MIC, a signed request
\* with the same or a lower DevNonce that is not below the record's
\* next_dev_nonce is accepted.
C38_RefusedJoinBurnsNoDevNonce ==
    LastIsJoin =>
        /\ (RefusedAfterNonceCheck("MICCheckFailed") \/ RefusedAfterNonceCheck("CorruptRegistry"))
              => /\ last.Pre = last.Before.Pre
                 /\ Deref(last.Pre).NextDevNonce = Deref(last.Before.Pre).NextDevNonce
        /\ (/\ RefusedAfterNonceCheck("MICCheckFailed")
             /\ LastJoinSignedV1_1
             /\ LastDevNonce <= DevNonceBefore
             /\ ~Uint32Less(Uint32FromUint16(LastDevNonce), Deref(last.Before.Pre).NextDevNonce))
              => last.Err = NoError

\* C38 witness: DevNonce 1 is refused for its MIC and accepted when sent
\* again with the MIC of the device.
C38_Witness ==
    /\ LastIsJoin
    /\ RefusedAfterNonceCheck("MICCheckFailed")
    /\ LastJoinSignedV1_1
    /\ DevNonceBefore = 1 /\ LastDevNonce = 1
    /\ LastAccepted
    /\ registry.NextDevNonce = <<0, 2>>

KeyOps == {"GetAppSKey", "GetNwkSKeys"}

\* C39: a GetAppSKey or GetNwkSKeys call, answered or refused, changes no
\* field of the device record and no accepted join, and a HandleJoin call
\* that follows it is answered, and stored, as it would have been in its
\* place.
C39_KeyRequestsReadOnly ==
    [][/\ last'.Op \in KeyOps => (registry' = registry /\ accepted' = accepted)
       /\ (last.Op \in KeyOps /\ last'.Op = "HandleJoin") =>
             LET call == Deref(last'.Call)
                 direct == HandleJoinResult(Deref(last.Pre), call.Req, call.Caller, call.Fault)
             IN  /\ last'.Err = direct.Err
                 /\ last'.Resp = direct.Resp
                 /\ registry' = IF direct.Stores THEN direct.Dev ELSE Deref(last.Pre)]_vars

\* C39 witness: a join accepted right after network session keys were
\* served.
C39_Witness ==
    /\ LastAccepted
    /\ last.Before.Op = "GetNwkSKeys"
    /\ last.Before.Err = NoError

====
